---------------------------- MODULE Spec2Model ----------------------------
(***************************************************************************)
(* A model of lsport: the local port scanner (scanner.rs), the remote SSH  *)
(* scanner (remote.rs) and the pieces of app.rs / main.rs they feed.       *)
(*                                                                         *)
(* Text is modelled as a sequence of one-character strings, so that the    *)
(* splitting, searching and number parsing the code does on command output *)
(* are computed rather than assumed.                                       *)
(***************************************************************************)
EXTENDS Integers, Sequences, FiniteSets, TLC

VARIABLES
    \* ---- the local Scanner (scanner.rs) and the clock it reads
    now,             \* Instant::now(), in whole seconds
    udp_cache,       \* Scanner.udp_cache : Vec<UdpCacheEntry>
    udp_cache_time,  \* Scanner.udp_cache_time : Instant
    last_raw_done,   \* when the raw UDP enumeration last returned (-1: never)
    \* ---- the scan that has just returned, until its caller drops the list
    entries,         \* the Vec<PortEntry> returned by Scanner::scan
    process_map,     \* the pid -> ProcessInfo map that scan built
    tcp_in,          \* what listeners::get_all() returned to that scan
    udp_source,      \* where that scan took its UDP rows from
    due,             \* whether 5 s had passed since the last raw enumeration
    \* ---- the RemoteScanner (remote.rs)
    session,         \* RemoteScanner.session : Option<Session>
    key_path,        \* RemoteScanner.config.key_path.is_some()
    \* ---- the RemoteScanner call that has just returned
    remote_op,       \* which call it was, and whether a session was held before
    remote_result,   \* what it returned
    exec_log,        \* the remote commands it sent
    connect_steps,   \* for connect(): which steps the far end let succeed
    auth_log,        \* for connect(): the methods it tried, and those that applied
    remote_env,      \* for scan and kill: what the far end answered
    \* ---- the local kill (scanner.rs kill_process, main.rs kill_process_force)
    \* ---- that has just returned
    kill_op,         \* which of the two it was
    kill_env,        \* the pid, and what the operating system did with it
    kill_result,     \* what the call returned
    kill_log,        \* what the call asked of the operating system, in order
    \* ---- the presentation loop (main.rs run)
    the_app,         \* app, the App
    scanner_mode,    \* the ScannerMode
    scan_interval,   \* args.scan_interval, in seconds
    since_scan,      \* last_scan.elapsed(), in whole seconds, capped
    pc,              \* where run() is: "start", "poll", "tick" or "exit"
    loop_step,       \* the step run() has just taken: its kind, the scans it
                     \* made, what became of a connect or disconnect
    \* ---- one call of a function of the program, on its own
    call             \* the function, its arguments and, once it returned, its result

scannerVars == <<now, udp_cache, udp_cache_time, last_raw_done, entries,
                 process_map, tcp_in, udp_source, due>>
remoteVars == <<session, key_path, remote_op, remote_result, exec_log,
               connect_steps, auth_log, remote_env>>
killVars == <<kill_op, kill_env, kill_result, kill_log>>
loopVars == <<the_app, scanner_mode, scan_interval, since_scan, pc, loop_step>>
vars == <<scannerVars, remoteVars, killVars, loopVars, call>>
nonScannerVars == <<remoteVars, killVars, loopVars, call>>
nonRemoteVars == <<scannerVars, killVars, loopVars, call>>
nonKillVars == <<scannerVars, remoteVars, loopVars, call>>
nonLoopVars == <<scannerVars, remoteVars, killVars, call>>
nonCallVars == <<scannerVars, remoteVars, killVars, loopVars>>

----------------------------------------------------------------------------
(* Text helpers: Rust's str methods on sequences of characters.            *)

Digits == <<"0", "1", "2", "3", "4", "5", "6", "7", "8", "9">>

IsDigit(c) == \E i \in 1..10 : Digits[i] = c

DigitVal(c) == (CHOOSE i \in 1..10 : Digits[i] = c) - 1

\* Option<T>
None == [some |-> FALSE]
Some(v) == [some |-> TRUE, val |-> v]

RECURSIVE DecValue(_)
\* the value of a non-empty run of decimal digits
DecValue(s) ==
    IF Len(s) = 0 THEN 0
    ELSE DecValue(SubSeq(s, 1, Len(s) - 1)) * 10 + DigitVal(s[Len(s)])

\* str::parse::<uN>(): an optional '+', then one or more digits, no overflow.
\* At most 9 digits are evaluated so that the value fits the checker's integers.
ParseUnsigned(s, maxv) ==
    LET body == IF Len(s) > 0 /\ s[1] = "+" THEN Tail(s) ELSE s
    IN  IF Len(body) = 0 \/ (\E i \in 1..Len(body) : ~IsDigit(body[i]))
        THEN None
        ELSE IF Len(body) > 9 THEN None
        ELSE IF DecValue(body) > maxv THEN None
        ELSE Some(DecValue(body))

U16_MAX == 65535

ParseU16(s) == ParseUnsigned(s, U16_MAX)
\* every text of at most 9 digits is a u32; longer pid texts are not among the
\* inputs of this model
ParseU32(s) == ParseUnsigned(s, 999999999)

RECURSIVE Dec(_)
\* u64::to_string / the integer part of format!("{}")
Dec(n) == IF n < 10 THEN <<Digits[n + 1]>> ELSE Dec(n \div 10) \o <<Digits[(n % 10) + 1]>>

\* str::contains(pat)
Contains(s, pat) ==
    \E i \in 1..(Len(s) - Len(pat) + 1) : SubSeq(s, i, i + Len(pat) - 1) = pat

\* str::find(pat): the first index (1-based) where pat starts, 0 when absent
Find(s, pat) ==
    IF Contains(s, pat)
    THEN CHOOSE i \in 1..(Len(s) - Len(pat) + 1) :
            /\ SubSeq(s, i, i + Len(pat) - 1) = pat
            /\ \A j \in 1..(i - 1) : SubSeq(s, j, j + Len(pat) - 1) # pat
    ELSE 0

\* str::rfind(pat): the last index where pat starts, 0 when absent
RFind(s, pat) ==
    IF Contains(s, pat)
    THEN CHOOSE i \in 1..(Len(s) - Len(pat) + 1) :
            /\ SubSeq(s, i, i + Len(pat) - 1) = pat
            /\ \A j \in (i + 1)..(Len(s) - Len(pat) + 1) :
                    SubSeq(s, j, j + Len(pat) - 1) # pat
    ELSE 0

\* s.rsplit(':').next(): the text after the last ':' (all of s without one)
RSplitFirst(s, pat) ==
    IF RFind(s, pat) = 0 THEN s ELSE SubSeq(s, RFind(s, pat) + Len(pat), Len(s))

IsSpace(c) == c \in {" ", "\t", "\n", "\r"}

RECURSIVE SplitWhitespace(_)
\* str::split_whitespace().collect(): the maximal runs of non-space characters
SplitWhitespace(s) ==
    IF Len(s) = 0 THEN <<>>
    ELSE IF IsSpace(s[1]) THEN SplitWhitespace(Tail(s))
    ELSE LET stops == {i \in 1..Len(s) : IsSpace(s[i])}
             end == IF stops = {} THEN Len(s) + 1
                    ELSE CHOOSE i \in stops : \A j \in stops : i <= j
         IN  <<SubSeq(s, 1, end - 1)>> \o SplitWhitespace(SubSeq(s, end, Len(s)))

RECURSIVE Join(_, _)
\* the tokens of a line written out with sep between them
Join(toks, sep) ==
    IF Len(toks) = 0 THEN <<>>
    ELSE IF Len(toks) = 1 THEN toks[1]
    ELSE toks[1] \o sep \o Join(Tail(toks), sep)

Line(toks) == Join(toks, <<" ">>)

RECURSIVE Unlines(_)
\* the lines written out, each ended by a newline
Unlines(ls) == IF Len(ls) = 0 THEN <<>> ELSE ls[1] \o <<"\n">> \o Unlines(Tail(ls))

RECURSIVE Lines(_)
\* str::lines(): the text cut at each newline; a last line need not end in one
Lines(s) ==
    IF Len(s) = 0 THEN <<>>
    ELSE IF Find(s, <<"\n">>) = 0 THEN <<s>>
    ELSE <<SubSeq(s, 1, Find(s, <<"\n">>) - 1)>>
            \o Lines(SubSeq(s, Find(s, <<"\n">>) + 1, Len(s)))

\* Iterator::skip(1)
Skip1(ls) == IF Len(ls) = 0 THEN <<>> ELSE Tail(ls)

RECURSIVE TrimStart(_)
TrimStart(s) ==
    IF Len(s) > 0 /\ s[1] \in {" ", "\t", "\n", "\r"} THEN TrimStart(Tail(s)) ELSE s

RECURSIVE TrimEnd(_)
TrimEnd(s) ==
    IF Len(s) > 0 /\ s[Len(s)] \in {" ", "\t", "\n", "\r"}
    THEN TrimEnd(SubSeq(s, 1, Len(s) - 1))
    ELSE s

\* str::trim()
Trim(s) == TrimEnd(TrimStart(s))

----------------------------------------------------------------------------
(* app.rs: PortEntry and zombie detection                                  *)

ZOMBIE_CPU_THRESHOLD == 40

PortEntry(port, protocol, pid, process_name, cpu_usage, memory_usage, memory_display, has_parent, is_zombie) ==
    [port |-> port, protocol |-> protocol, pid |-> pid,
     process_name |-> process_name, cpu_usage |-> cpu_usage,
     memory_usage |-> memory_usage, memory_display |-> memory_display,
     has_parent |-> has_parent, is_zombie |-> is_zombie]

detect_zombie_strict_slip(e) ==
    [e EXCEPT !.is_zombie = e.cpu_usage >= ZOMBIE_CPU_THRESHOLD /\ ~e.has_parent]

\* PortEntry::detect_zombie
detect_zombie(e) ==
    [e EXCEPT !.is_zombie = e.cpu_usage > ZOMBIE_CPU_THRESHOLD /\ ~e.has_parent]

----------------------------------------------------------------------------
(* scanner.rs: format_memory                                               *)

KB == 1024
MB == 1048576
GB == 1073741824

\* format!("{:.1}", bytes as f64 / unit as f64) for bytes below 2^31: the
\* quotient is exact (unit is a power of two), and the formatter rounds the
\* exact value to one decimal, a tie going to the even digit.  Computed in
\* pieces below 2^31: 10 * (bytes % unit) = top * low + e.
OneDecimal(bytes, unit) ==
    LET w == bytes \div unit
        r == bytes % unit
        low == unit \div 1024
        a == r \div low
        b == r % low
        c == (10 * b) \div low
        e == (10 * b) % low
        top == 10 * a + c
        d == top \div 1024
        rem == (top % 1024) * low + e
        half == unit \div 2
        up == rem > half \/ (rem = half /\ d % 2 = 1)
        tenths == w * 10 + d + (IF up THEN 1 ELSE 0)
    IN  Dec(tenths \div 10) \o <<".">> \o Dec(tenths % 10)

format_memory_strict_thresholds(bytes) ==
    IF bytes > GB THEN OneDecimal(bytes, GB) \o <<" ", "G", "B">>
    ELSE IF bytes > MB THEN OneDecimal(bytes, MB) \o <<" ", "M", "B">>
    ELSE IF bytes > KB THEN OneDecimal(bytes, KB) \o <<" ", "K", "B">>
    ELSE Dec(bytes) \o <<" ", "B">>

\* format_memory, for bytes below 2^31
format_memory(bytes) ==
    IF bytes >= GB THEN OneDecimal(bytes, GB) \o <<" ", "G", "B">>
    ELSE IF bytes >= MB THEN OneDecimal(bytes, MB) \o <<" ", "M", "B">>
    ELSE IF bytes >= KB THEN OneDecimal(bytes, KB) \o <<" ", "K", "B">>
    ELSE Dec(bytes) \o <<" ", "B">>

\* A u64 beyond the checker's integers, in three limbs of 30 bits:
\* l2 * 2^60 + l1 * 2^30 + l0, with l2 < 16 and l1, l0 < 2^30
U64(l2, l1, l0) == [l2 |-> l2, l1 |-> l1, l0 |-> l0]

RECURSIVE BitLen(_)
\* the number of bits of a non-negative integer
BitLen(n) == IF n = 0 THEN 0 ELSE 1 + BitLen(n \div 2)

RECURSIVE Pow2(_)
Pow2(k) == IF k = 0 THEN 1 ELSE 2 * Pow2(k - 1)

\* the limbs with the carries of the lower ones taken up (l2 may reach 16)
Carried(v) ==
    LET l1 == v.l1 + (v.l0 \div GB)
    IN  U64(v.l2 + (l1 \div GB), l1 % GB, v.l0 % GB)

\* `bytes as f64`: the nearest value of 53 significant bits, a tie going to
\* the even one
as_f64(v) ==
    LET n == IF v.l2 > 0 THEN 60 + BitLen(v.l2)
             ELSE IF v.l1 > 0 THEN 30 + BitLen(v.l1) ELSE BitLen(v.l0)
        k == n - 53
        step == Pow2(k)
        low == v.l0 % step
        kept == v.l0 - low
        up == 2 * low > step \/ (2 * low = step /\ ((v.l0 \div step) % 2) = 1)
    IN  IF k <= 0 THEN v
        ELSE Carried(U64(v.l2, v.l1, kept + (IF up THEN step ELSE 0)))

\* a number below 10^5 in five digits
Pad5(n) ==
    <<Digits[((n \div 10000) % 10) + 1], Digits[((n \div 1000) % 10) + 1],
      Digits[((n \div 100) % 10) + 1], Digits[((n \div 10) % 10) + 1],
      Digits[(n % 10) + 1]>>

\* the decimal digits of l2 * 2^30 + l1 + carry, computed in pieces of five
\* digits: 2^30 = 10737 * 10^5 + 41824
DecGigas(l2, l1, carry) ==
    LET lowsum == (l2 * 41824) + (l1 % 100000) + carry
        high == (l2 * 10737) + (l1 \div 100000) + (lowsum \div 100000)
    IN  IF high = 0 THEN Dec(lowsum) ELSE Dec(high) \o Pad5(lowsum % 100000)

\* format_memory on the whole range of u64: below 2^31 as above; from there
\* on the GB branch, format!("{:.1} GB", bytes as f64 / GB as f64), the
\* division by a power of two being exact
format_memory_u64(v) ==
    IF v.l2 = 0 /\ v.l1 < 2 THEN format_memory((v.l1 * GB) + v.l0)
    ELSE LET f == as_f64(v)
             frac == OneDecimal(f.l0, GB)
         IN  DecGigas(f.l2, f.l1, IF frac[1] = "1" THEN 1 ELSE 0)
                 \o <<".", frac[3]>> \o <<" ", "G", "B">>

----------------------------------------------------------------------------
(* scanner.rs: Scanner                                                     *)

\* UDP_CACHE_DURATION, in seconds
UDP_CACHE_DURATION == 5

Last(s) == s[Len(s)]
Front(s) == SubSeq(s, 1, Len(s) - 1)

ScanOrder_memory_ascending(a, b) ==
    IF a.port < b.port THEN "Less"
    ELSE IF a.port > b.port THEN "Greater"
    ELSE IF a.protocol = "Tcp" /\ b.protocol = "Udp" THEN "Less"
    ELSE IF a.protocol = "Udp" /\ b.protocol = "Tcp" THEN "Greater"
    ELSE IF a.memory_usage < b.memory_usage THEN "Less"
    ELSE IF a.memory_usage > b.memory_usage THEN "Greater"
    ELSE "Equal"

\* the comparator given to entries.sort_by in Scanner::scan
ScanOrder(a, b) ==
    IF a.port < b.port THEN "Less"
    ELSE IF a.port > b.port THEN "Greater"
    ELSE IF a.protocol = "Tcp" /\ b.protocol = "Udp" THEN "Less"
    ELSE IF a.protocol = "Udp" /\ b.protocol = "Tcp" THEN "Greater"
    ELSE IF b.memory_usage < a.memory_usage THEN "Less"
    ELSE IF b.memory_usage > a.memory_usage THEN "Greater"
    ELSE "Equal"

RECURSIVE InsertStable(_, _)
\* e placed after every element that does not compare Greater than it
InsertStable(sorted, e) ==
    IF Len(sorted) = 0 THEN <<e>>
    ELSE IF ScanOrder(e, Last(sorted)) = "Less"
         THEN InsertStable(Front(sorted), e) \o <<Last(sorted)>>
         ELSE sorted \o <<e>>

RECURSIVE SortScan(_)
\* Vec::sort_by (a stable sort) with ScanOrder
SortScan(s) ==
    IF Len(s) = 0 THEN <<>> ELSE InsertStable(SortScan(Front(s)), Last(s))

\* struct ProcessInfo
ProcessInfo(name, cpu_usage, memory, has_parent) ==
    [name |-> name, cpu_usage |-> cpu_usage, memory |-> memory,
     has_parent |-> has_parent]

\* struct UdpCacheEntry
UdpCacheEntry(port, pid, process_name) ==
    [port |-> port, pid |-> pid, process_name |-> process_name]

listener_to_entry_miss_orphan(listener, protocol, pm) ==
    IF listener.pid \in DOMAIN pm
    THEN LET info == pm[listener.pid]
         IN  PortEntry(listener.port, protocol, listener.pid, info.name,
                       info.cpu_usage, info.memory, format_memory(info.memory),
                       info.has_parent, FALSE)
    ELSE PortEntry(listener.port, protocol, listener.pid, listener.name,
                   0, 0, format_memory(0), FALSE, FALSE)

\* Scanner::listener_to_entry; pm is the process map, a function on the pids
\* of the directory
listener_to_entry(listener, protocol, pm) ==
    IF listener.pid \in DOMAIN pm
    THEN LET info == pm[listener.pid]
         IN  PortEntry(listener.port, protocol, listener.pid, info.name,
                       info.cpu_usage, info.memory, format_memory(info.memory),
                       info.has_parent, FALSE)
    ELSE PortEntry(listener.port, protocol, listener.pid, listener.name,
                   0, 0, format_memory(0), TRUE, FALSE)

udp_entry_stats_dropped(cached, pm) ==
    PortEntry(cached.port, "Udp", cached.pid, cached.process_name,
              0, 0, format_memory(0), TRUE, FALSE)

\* the closure of Scanner::get_udp_entries: a cached row joined with the
\* process map of the current scan
udp_entry(cached, pm) ==
    IF cached.pid \in DOMAIN pm
    THEN LET info == pm[cached.pid]
         IN  PortEntry(cached.port, "Udp", cached.pid, cached.process_name,
                       info.cpu_usage, info.memory, format_memory(info.memory),
                       info.has_parent, FALSE)
    ELSE PortEntry(cached.port, "Udp", cached.pid, cached.process_name,
                   0, 0, format_memory(0), TRUE, FALSE)

\* the result of Command::output(): ran is FALSE when the command could not
\* be spawned, success is status.success(), stdout is the text it printed
CmdOutput(ran, success, stdout) ==
    [ran |-> ran, success |-> success, stdout |-> stdout]

RECURSIVE LsofRows(_, _)
\* the loop of scan_udp_with_lsof_raw over the lines after the header;
\* acc is `entries`, whose (port, pid) pairs are the keys of seen_ports
LsofRows(lines, acc) ==
    IF Len(lines) = 0 THEN acc
    ELSE
      LET parts == SplitWhitespace(lines[1])
          rest == Tail(lines)
      IN  IF Len(parts) < 9 THEN LsofRows(rest, acc)
          ELSE
            LET pid == ParseU32(parts[2])
                port == ParseU16(RSplitFirst(Last(parts), <<":">>))
            IN  IF ~pid.some THEN LsofRows(rest, acc)
                ELSE IF ~port.some THEN LsofRows(rest, acc)
                ELSE IF \E i \in 1..Len(acc) :
                            acc[i].port = port.val /\ acc[i].pid = pid.val
                     THEN LsofRows(rest, acc)
                ELSE LsofRows(rest,
                        Append(acc, UdpCacheEntry(port.val, pid.val, parts[1])))

\* Scanner::scan_udp_with_lsof_raw : Option<Vec<UdpCacheEntry>>
scan_udp_with_lsof_raw(out) ==
    IF ~out.ran THEN None
    ELSE IF ~out.success THEN None
    ELSE Some(LsofRows(Skip1(Lines(out.stdout)), <<>>))

\* str::split_once(pat)
SplitOnce(s, pat) ==
    IF Find(s, pat) = 0 THEN None
    ELSE Some(<<SubSeq(s, 1, Find(s, pat) - 1),
                SubSeq(s, Find(s, pat) + Len(pat), Len(s))>>)

RECURSIVE NetstatRows(_, _)
\* the loop of scan_udp_with_netstat_raw; the result is None when a `?` in
\* the loop body returns from the function
NetstatRows(lines, acc) ==
    IF Len(lines) = 0 THEN Some(acc)
    ELSE
      LET line == lines[1]
          rest == Tail(lines)
          parts == SplitWhitespace(line)
      IN  IF ~Contains(line, <<"u", "d", "p">>) /\ ~Contains(line, <<"U", "D", "P">>)
          THEN NetstatRows(rest, acc)
          ELSE IF Len(parts) < 2 THEN None
          ELSE
            LET local_addr == IF Len(parts) >= 4 THEN parts[4] ELSE parts[2]
                port == ParseU16(RSplitFirst(local_addr, <<":">>))
                pid_prog == SplitOnce(Last(parts), <<"/">>)
            IN  IF ~port.some THEN NetstatRows(rest, acc)
                ELSE IF ~pid_prog.some THEN NetstatRows(rest, acc)
                ELSE IF ~ParseU32(pid_prog.val[1]).some THEN NetstatRows(rest, acc)
                ELSE NetstatRows(rest,
                        Append(acc, UdpCacheEntry(port.val,
                                                  ParseU32(pid_prog.val[1]).val,
                                                  pid_prog.val[2])))

\* Scanner::scan_udp_with_netstat_raw; first is `netstat -ulnp`, second is
\* `netstat -an -p udp`, run only when the first could not be spawned
scan_udp_with_netstat_raw(first, second) ==
    LET out == IF first.ran THEN first ELSE second
    IN  IF ~out.ran THEN None
        ELSE IF ~out.success THEN None
        ELSE LET rows == NetstatRows(Lines(out.stdout), <<>>)
             IN  IF ~rows.some THEN None
                 ELSE IF Len(rows.val) = 0 THEN None
                 ELSE rows

\* Scanner::scan_udp_ports_raw, with the command that produced the rows
scan_udp_ports_raw(lsof, netstat1, netstat2) ==
    IF scan_udp_with_lsof_raw(lsof).some
    THEN [source |-> "lsof", rows |-> scan_udp_with_lsof_raw(lsof).val]
    ELSE IF scan_udp_with_netstat_raw(netstat1, netstat2).some
    THEN [source |-> "netstat",
          rows |-> scan_udp_with_netstat_raw(netstat1, netstat2).val]
    ELSE [source |-> "failed", rows |-> <<>>]

\* Scanner::refresh_udp_cache: raw is what scan_udp_ports_raw returned and
\* done is Instant::now() once it has returned
refresh_udp_cache(raw, done) ==
    [udp_cache |-> raw.rows, udp_cache_time |-> done]

cache_expired_strictly_after(elapsed) == elapsed > UDP_CACHE_DURATION

\* the staleness test of Scanner::get_udp_entries
cache_expired(elapsed) == elapsed >= UDP_CACHE_DURATION

\* Scanner::get_udp_entries, after the refresh if any
get_udp_entries(cache, pm) ==
    [i \in 1..Len(cache) |-> udp_entry(cache[i], pm)]

\* Result<Vec<Listener>> of listeners::get_all()
Ok(v) == [ok |-> TRUE, val |-> v]
Err == [ok |-> FALSE]

\* the TCP loop of Scanner::scan
tcp_entries(tcp, pm) ==
    IF tcp.ok
    THEN [i \in 1..Len(tcp.val) |-> listener_to_entry(tcp.val[i], "Tcp", pm)]
    ELSE <<>>

scan_all_or_nothing(pm, tcp, cache) ==
    IF tcp.ok
    THEN LET sorted == SortScan(tcp_entries(tcp, pm) \o get_udp_entries(cache, pm))
         IN  [i \in 1..Len(sorted) |-> detect_zombie(sorted[i])]
    ELSE <<>>

\* Scanner::scan, from the process map, the TCP listeners and the UDP cache
\* (already refreshed when stale) to the returned list
scan(pm, tcp, cache) ==
    LET sorted == SortScan(tcp_entries(tcp, pm) \o get_udp_entries(cache, pm))
    IN  [i \in 1..Len(sorted) |-> detect_zombie(sorted[i])]

----------------------------------------------------------------------------
(* remote.rs: RemoteScanner                                                *)

\* Result<T> of the remote operations
ROk(v) == [ok |-> TRUE, val |-> v, err |-> "none"]
RErr(msg) == [ok |-> FALSE, val |-> <<>>, err |-> msg]

\* the entry every remote parser builds
RemoteEntry(port, protocol, pid, process_name) ==
    PortEntry(port, protocol, pid, process_name, 0, 0, <<"-">>, TRUE, FALSE)

\* RemoteScanner::extract_port
extract_port(addr) ==
    IF Contains(addr, <<"]", ":">>)
    THEN ParseU16(RSplitFirst(addr, <<"]", ":">>))
    ELSE IF RFind(addr, <<":">>) # 0
    THEN ParseU16(SubSeq(addr, RFind(addr, <<":">>) + 1, Len(addr)))
    ELSE None

Unknown == <<"u", "n", "k", "n", "o", "w", "n">>

\* RemoteScanner::parse_ss_users : (pid, process_name)
parse_ss_users(users) ==
    LET start == Find(users, <<"(", "(", "\"">>)
        rest == SubSeq(users, start + 3, Len(users))
        end == Find(rest, <<"\"">>)
        process_name == SubSeq(rest, 1, end - 1)
        pid_start == Find(rest, <<"p", "i", "d", "=">>)
        pid_rest == SubSeq(rest, pid_start + 4, Len(rest))
        stops == {i \in 1..Len(pid_rest) : ~IsDigit(pid_rest[i])}
        pid_end == CHOOSE i \in stops : \A j \in stops : i <= j
    IN  IF start = 0 THEN <<0, Unknown>>
        ELSE IF end = 0 THEN <<0, Unknown>>
        ELSE IF pid_start = 0 THEN <<0, process_name>>
        ELSE IF stops = {} THEN <<0, process_name>>
        ELSE IF ~ParseU32(SubSeq(pid_rest, 1, pid_end - 1)).some
             THEN <<0, process_name>>
        ELSE <<ParseU32(SubSeq(pid_rest, 1, pid_end - 1)).val, process_name>>

\* RemoteScanner::parse_ss_line : Option<PortEntry>
parse_ss_line(line, protocol) ==
    LET parts == SplitWhitespace(line)
    IN  IF Len(parts) < 5 THEN None
        ELSE IF ~extract_port(parts[5]).some THEN None
        ELSE Some(RemoteEntry(extract_port(parts[5]).val, protocol,
                              parse_ss_users(Last(parts))[1],
                              parse_ss_users(Last(parts))[2]))

parse_lsof_line_orphan(line, protocol) ==
    LET parts == SplitWhitespace(line)
    IN  IF Len(parts) < 9 THEN None
        ELSE IF ~ParseU32(parts[2]).some THEN None
        ELSE IF ~extract_port(parts[9]).some THEN None
        ELSE Some(PortEntry(extract_port(parts[9]).val, protocol,
                            ParseU32(parts[2]).val, parts[1],
                            0, 0, <<"-">>, FALSE, FALSE))

\* RemoteScanner::parse_lsof_line : Option<PortEntry>
parse_lsof_line(line, protocol) ==
    LET parts == SplitWhitespace(line)
    IN  IF Len(parts) < 9 THEN None
        ELSE IF ~ParseU32(parts[2]).some THEN None
        ELSE IF ~extract_port(parts[9]).some THEN None
        ELSE Some(RemoteEntry(extract_port(parts[9]).val, protocol,
                              ParseU32(parts[2]).val, parts[1]))

\* RemoteScanner::parse_netstat_line : Option<PortEntry>
parse_netstat_line(line) ==
    LET parts == SplitWhitespace(line)
        hits == {i \in 1..Len(parts) : extract_port(parts[i]).some}
        first == CHOOSE i \in hits : \A j \in hits : i <= j
    IN  IF Len(parts) < 4 THEN None
        ELSE IF hits = {} THEN None
        ELSE Some(RemoteEntry(extract_port(parts[first]).val, "Tcp", 0, Unknown))

RECURSIVE FilterMap(_, _, _)
\* for line in lines { if let Some(entry) = parse(line) { entries.push(entry) } }
\* with parse one of "ss", "lsof", "netstat"
FilterMap(lines, parser, protocol) ==
    IF Len(lines) = 0 THEN <<>>
    ELSE LET line == lines[1]
             r == IF parser = "ss" THEN parse_ss_line(line, protocol)
                  ELSE IF parser = "lsof" THEN parse_lsof_line(line, protocol)
                  ELSE IF Contains(line, <<"L", "I", "S", "T", "E", "N">>)
                          \/ Contains(line, <<"t", "c", "p">>)
                       THEN parse_netstat_line(line)
                       ELSE None
         IN  (IF r.some THEN <<r.val>> ELSE <<>>)
                \o FilterMap(Tail(lines), parser, protocol)

\* the commands RemoteScanner sends
CmdUname == "uname -s"
CmdSsTcp == "ss -tlnp 2>/dev/null || netstat -tlnp 2>/dev/null"
CmdSsUdp == "ss -ulnp 2>/dev/null || netstat -ulnp 2>/dev/null"
CmdLsofTcp == "lsof -iTCP -sTCP:LISTEN -P -n 2>/dev/null"
CmdLsofUdp == "lsof -iUDP -P -n 2>/dev/null"
CmdNetstat == "netstat -tlnp 2>/dev/null || netstat -an 2>/dev/null"
\* the kill commands, as the signals the shell sends in turn; "||" runs the
\* next stage only if the one before it failed
\* "kill {pid} 2>&1 || kill -9 {pid} 2>&1"
CmdKill(pid) ==
    [stages |-> <<[signal |-> "TERM", pid |-> pid], [signal |-> "KILL", pid |-> pid]>>,
     chain |-> "||"]
\* "kill -9 {pid} 2>&1"
CmdKillForce(pid) == [stages |-> <<[signal |-> "KILL", pid |-> pid]>>, chain |-> "||"]

\* what the far end does with one command: out.ok with the text it printed,
\* or a failure to open the channel, to start the command or to read
\* RemoteScanner::exec with a session: the command is sent unless the channel
\* could not be opened
exec(command, out) ==
    [result |-> IF out.ok THEN ROk(out.text)
                ELSE IF out.fail = "channel" THEN RErr("Failed to open channel")
                ELSE IF out.fail = "exec" THEN RErr("Failed to execute command")
                ELSE RErr("Failed to read output"),
     sent |-> IF ~out.ok /\ out.fail = "channel" THEN <<>> ELSE <<command>>]

\* RemoteScanner::scan_linux, RemoteScanner::scan_macos: two commands, the
\* second sent only when the first succeeded, then both outputs parsed
scan_two(cmd1, cmd2, parser, out1, out2) ==
    LET e1 == exec(cmd1, out1)
        e2 == exec(cmd2, out2)
    IN  IF ~e1.result.ok THEN [result |-> e1.result, sent |-> e1.sent]
        ELSE IF ~e2.result.ok
        THEN [result |-> e2.result, sent |-> e1.sent \o e2.sent]
        ELSE [result |-> ROk(FilterMap(Skip1(Lines(e1.result.val)), parser, "Tcp")
                              \o FilterMap(Skip1(Lines(e2.result.val)), parser, "Udp")),
              sent |-> e1.sent \o e2.sent]

scan_linux(out1, out2) == scan_two(CmdSsTcp, CmdSsUdp, "ss", out1, out2)

scan_macos(out1, out2) == scan_two(CmdLsofTcp, CmdLsofUdp, "lsof", out1, out2)

\* RemoteScanner::scan_generic
scan_generic(out1) ==
    LET e1 == exec(CmdNetstat, out1)
    IN  IF ~e1.result.ok THEN [result |-> e1.result, sent |-> e1.sent]
        ELSE [result |-> ROk(FilterMap(Lines(e1.result.val), "netstat", "Tcp")),
              sent |-> e1.sent]

\* a Session as connect() builds it: Session::new(), set_tcp_stream,
\* handshake, userauth_*
NewSession == [stream |-> FALSE, handshaken |-> FALSE, authenticated |-> FALSE]

\* the default key files, in the order connect() tries them
DefaultKeys == <<"id_ed25519", "id_rsa", "id_ecdsa">>

RECURSIVE try_default_keys(_, _)
\* the loop over default_keys from index i; keys[i] says whether the file is
\* "missing", "rejected" by the server or "accepted"
try_default_keys(keys, i) ==
    IF i > Len(keys) THEN [authenticated |-> FALSE, tried |-> <<>>]
    ELSE IF keys[i] = "missing" THEN try_default_keys(keys, i + 1)
    ELSE IF keys[i] = "accepted"
    THEN [authenticated |-> TRUE, tried |-> <<DefaultKeys[i]>>]
    ELSE [authenticated |-> try_default_keys(keys, i + 1).authenticated,
          tried |-> <<DefaultKeys[i]>> \o try_default_keys(keys, i + 1).tried]

\* the authentication part of connect(): [ok, err, tried]
authenticate(has_key, env) ==
    IF has_key
    THEN [ok |-> env.key_ok, err |-> "Public key authentication failed",
          tried |-> <<"key">>]
    ELSE IF env.agent_ok
    THEN [ok |-> TRUE, err |-> "none", tried |-> <<"agent">>]
    ELSE [ok |-> try_default_keys(env.default_keys, 1).authenticated,
          err |-> "Authentication failed. Tried ssh-agent and default keys.",
          tried |-> <<"agent">> \o try_default_keys(env.default_keys, 1).tried]

connect_session_kept_on_auth_failure(sess, has_key, env) ==
    LET auth == authenticate(has_key, env)
        built == [stream |-> TRUE, handshaken |-> TRUE,
                  authenticated |-> auth.ok /\ env.confirmed]
    IN  IF env.fail_at = "addr"
        THEN [result |-> RErr("Invalid address"), session |-> sess, tried |-> <<>>]
        ELSE IF env.fail_at = "tcp"
        THEN [result |-> RErr("Failed to connect"), session |-> sess, tried |-> <<>>]
        ELSE IF env.fail_at = "session"
        THEN [result |-> RErr("Failed to create SSH session"), session |-> sess,
              tried |-> <<>>]
        ELSE IF env.fail_at = "handshake"
        THEN [result |-> RErr("SSH handshake failed"), session |-> sess,
              tried |-> <<>>]
        ELSE IF ~auth.ok
        THEN [result |-> RErr(auth.err), session |-> Some(built), tried |-> auth.tried]
        ELSE IF ~built.authenticated
        THEN [result |-> RErr("SSH authentication failed"), session |-> Some(built),
              tried |-> auth.tried]
        ELSE [result |-> ROk(<<>>), session |-> Some(built), tried |-> auth.tried]

\* RemoteScanner::connect, on the outcomes env of its steps: the step that
\* fails before authentication (fail_at), the answers to the authentication
\* methods, and whether the session then reports authenticated()
connect(sess, has_key, env) ==
    LET auth == authenticate(has_key, env)
        built == [stream |-> TRUE, handshaken |-> TRUE,
                  authenticated |-> auth.ok /\ env.confirmed]
    IN  IF env.fail_at = "addr"
        THEN [result |-> RErr("Invalid address"), session |-> sess, tried |-> <<>>]
        ELSE IF env.fail_at = "tcp"
        THEN [result |-> RErr("Failed to connect"), session |-> sess, tried |-> <<>>]
        ELSE IF env.fail_at = "session"
        THEN [result |-> RErr("Failed to create SSH session"), session |-> sess,
              tried |-> <<>>]
        ELSE IF env.fail_at = "handshake"
        THEN [result |-> RErr("SSH handshake failed"), session |-> sess,
              tried |-> <<>>]
        ELSE IF ~auth.ok
        THEN [result |-> RErr(auth.err), session |-> sess, tried |-> auth.tried]
        ELSE IF ~built.authenticated
        THEN [result |-> RErr("SSH authentication failed"), session |-> sess,
              tried |-> auth.tried]
        ELSE [result |-> ROk(<<>>), session |-> Some(built), tried |-> auth.tried]

\* RemoteScanner::is_connected
is_connected(sess) == sess.some

scan_remote_unguarded(sess, uname, out1, out2) ==
    LET e0 == exec(CmdUname, uname)
        os == Trim(e0.result.val)
        rest == IF os = <<"L", "i", "n", "u", "x">> THEN scan_linux(out1, out2)
                ELSE IF os = <<"D", "a", "r", "w", "i", "n">> THEN scan_macos(out1, out2)
                ELSE scan_generic(out1)
    IN  IF ~e0.result.ok THEN [result |-> e0.result, sent |-> e0.sent]
        ELSE [result |-> rest.result, sent |-> e0.sent \o rest.sent]

scan_remote_os_untrimmed(sess, uname, out1, out2) ==
    LET e0 == exec(CmdUname, uname)
        os == e0.result.val
        rest == IF os = <<"L", "i", "n", "u", "x">> THEN scan_linux(out1, out2)
                ELSE IF os = <<"D", "a", "r", "w", "i", "n">> THEN scan_macos(out1, out2)
                ELSE scan_generic(out1)
    IN  IF ~is_connected(sess)
        THEN [result |-> RErr("Not connected to remote host"), sent |-> <<>>]
        ELSE IF ~e0.result.ok THEN [result |-> e0.result, sent |-> e0.sent]
        ELSE [result |-> rest.result, sent |-> e0.sent \o rest.sent]

\* RemoteScanner::scan
scan_remote(sess, uname, out1, out2) ==
    LET e0 == exec(CmdUname, uname)
        os == Trim(e0.result.val)
        rest == IF os = <<"L", "i", "n", "u", "x">> THEN scan_linux(out1, out2)
                ELSE IF os = <<"D", "a", "r", "w", "i", "n">> THEN scan_macos(out1, out2)
                ELSE scan_generic(out1)
    IN  IF ~is_connected(sess)
        THEN [result |-> RErr("Not connected to remote host"), sent |-> <<>>]
        ELSE IF ~e0.result.ok THEN [result |-> e0.result, sent |-> e0.sent]
        ELSE [result |-> rest.result, sent |-> e0.sent \o rest.sent]

\* the texts both kills look for in the captured output
NoSuchProcess ==
    <<"N", "o", " ", "s", "u", "c", "h", " ", "p", "r", "o", "c", "e", "s", "s">>
OperationNotPermitted ==
    <<"O", "p", "e", "r", "a", "t", "i", "o", "n", " ", "n", "o", "t", " ",
      "p", "e", "r", "m", "i", "t", "t", "e", "d">>
PermissionDenied ==
    <<"P", "e", "r", "m", "i", "s", "s", "i", "o", "n", " ",
      "d", "e", "n", "i", "e", "d">>

kill_outcome_permission_first(text) ==
    IF Contains(text, OperationNotPermitted) \/ Contains(text, PermissionDenied)
    THEN RErr("Permission denied. Try running with sudo on remote host.")
    ELSE IF Contains(text, NoSuchProcess)
    THEN RErr("Process not found")
    ELSE ROk(<<>>)

\* the classification of the captured output, shared by both kills
kill_outcome(text) ==
    IF Contains(text, <<"N", "o", " ", "s", "u", "c", "h", " ",
                         "p", "r", "o", "c", "e", "s", "s">>)
    THEN RErr("Process not found")
    ELSE IF Contains(text, <<"O", "p", "e", "r", "a", "t", "i", "o", "n", " ",
                              "n", "o", "t", " ",
                              "p", "e", "r", "m", "i", "t", "t", "e", "d">>)
            \/ Contains(text, <<"P", "e", "r", "m", "i", "s", "s", "i", "o", "n", " ",
                                 "d", "e", "n", "i", "e", "d">>)
    THEN RErr("Permission denied. Try running with sudo on remote host.")
    ELSE ROk(<<>>)

\* RemoteScanner::kill_process
kill_process_remote(sess, pid, out) ==
    LET e == exec(CmdKill(pid), out)
    IN  IF ~is_connected(sess)
        THEN [result |-> RErr("Not connected to remote host"), sent |-> <<>>]
        ELSE IF ~e.result.ok THEN [result |-> e.result, sent |-> e.sent]
        ELSE [result |-> kill_outcome(e.result.val), sent |-> e.sent]

kill_process_force_remote_two_stage(sess, pid, out) ==
    LET e == exec(CmdKill(pid), out)
    IN  IF ~is_connected(sess)
        THEN [result |-> RErr("Not connected to remote host"), sent |-> <<>>]
        ELSE IF ~e.result.ok THEN [result |-> e.result, sent |-> e.sent]
        ELSE [result |-> kill_outcome(e.result.val), sent |-> e.sent]

\* RemoteScanner::kill_process_force
kill_process_force_remote(sess, pid, out) ==
    LET e == exec(CmdKillForce(pid), out)
    IN  IF ~is_connected(sess)
        THEN [result |-> RErr("Not connected to remote host"), sent |-> <<>>]
        ELSE IF ~e.result.ok THEN [result |-> e.result, sent |-> e.sent]
        ELSE [result |-> kill_outcome(e.result.val), sent |-> e.sent]

----------------------------------------------------------------------------
(* scanner.rs kill_process, main.rs kill_process_force                     *)

\* Result<()> of the local kills; the error messages carry the pid and, for
\* the permission error, the name of the process
KOk == [ok |-> TRUE, kind |-> "none", pid |-> 0, name |-> <<>>]
\* "Process with PID {pid} not found. It may have already exited."
KNotFound(pid) == [ok |-> FALSE, kind |-> "not found", pid |-> pid, name |-> <<>>]
\* "Failed to kill process {name} (PID: {pid}). Permission denied - try
\* running with sudo."
KPermission(pid, name) == [ok |-> FALSE, kind |-> "permission denied", pid |-> pid, name |-> name]
\* "Failed to force kill process"
KSpawnFailed == [ok |-> FALSE, kind |-> "force kill failed", pid |-> 0, name |-> <<>>]

FORCE_KILL_WAIT_MS == 100

\* what a kill asks of the operating system
SysRefresh(pid) == [ev |-> "refresh", pid |-> pid, ms |-> 0]
SysKill(pid) == [ev |-> "process.kill", pid |-> pid, ms |-> 0]
SysSleep == [ev |-> "sleep", pid |-> 0, ms |-> FORCE_KILL_WAIT_MS]
SysKill9(pid) == [ev |-> "kill -9", pid |-> pid, ms |-> 0]

kill_process_retries(pid, env) ==
    IF ~env.process.some
    THEN [result |-> KNotFound(pid), log |-> <<SysRefresh(pid)>>]
    ELSE IF env.kill_ok
    THEN [result |-> KOk, log |-> <<SysRefresh(pid), SysKill(pid)>>]
    ELSE [result |-> KPermission(pid, env.process.val),
          log |-> <<SysRefresh(pid), SysKill(pid), SysKill(pid)>>]

\* kill_process (scanner.rs), on what the operating system does: env.process
\* is the process the snapshot holds for the pid, env.kill_ok what
\* process.kill() returns
kill_process(pid, env) ==
    IF ~env.process.some
    THEN [result |-> KNotFound(pid), log |-> <<SysRefresh(pid)>>]
    ELSE IF env.kill_ok
    THEN [result |-> KOk, log |-> <<SysRefresh(pid), SysKill(pid)>>]
    ELSE [result |-> KPermission(pid, env.process.val),
          log |-> <<SysRefresh(pid), SysKill(pid)>>]

kill_process_force_always_escalates(pid, env) ==
    LET first == <<SysRefresh(pid), SysKill(pid)>>
        waited == first \o <<SysSleep, SysRefresh(pid)>>
    IN  IF ~env.process.some
        THEN [result |-> KNotFound(pid), log |-> <<SysRefresh(pid)>>]
        ELSE IF ~env.kill_ok
        THEN [result |-> KPermission(pid, env.process.val), log |-> first]
        ELSE IF ~env.spawn_ok
        THEN [result |-> KSpawnFailed, log |-> waited \o <<SysKill9(pid)>>]
        ELSE [result |-> KOk, log |-> waited \o <<SysKill9(pid)>>]

\* kill_process_force (main.rs): env.alive_after is whether the second
\* snapshot still holds the pid, env.spawn_ok whether `kill -9` could be run
kill_process_force(pid, env) ==
    LET first == <<SysRefresh(pid), SysKill(pid)>>
        waited == first \o <<SysSleep, SysRefresh(pid)>>
    IN  IF ~env.process.some
        THEN [result |-> KNotFound(pid), log |-> <<SysRefresh(pid)>>]
        ELSE IF ~env.kill_ok
        THEN [result |-> KPermission(pid, env.process.val), log |-> first]
        ELSE IF ~env.alive_after
        THEN [result |-> KOk, log |-> waited]
        ELSE IF ~env.spawn_ok
        THEN [result |-> KSpawnFailed, log |-> waited \o <<SysKill9(pid)>>]
        ELSE [result |-> KOk, log |-> waited \o <<SysKill9(pid)>>]

----------------------------------------------------------------------------
(* remote.rs: RemoteConfig                                                 *)

\* the text before the first occurrence of the one-character pattern, and
\* the text after it (str::splitn(2, c))
BeforeFirst(t, c) == SubSeq(t, 1, Find(t, c) - 1)
AfterFirst(t, c) == SubSeq(t, Find(t, c) + 1, Len(t))

\* std::env::var("USER").or_else(|_| std::env::var("USERNAME"))
\*     .unwrap_or_else(|_| "root".to_string())
current_user(env) ==
    IF env.USER.some THEN env.USER.val
    ELSE IF env.USERNAME.some THEN env.USERNAME.val
    ELSE <<"r", "o", "o", "t">>

RemoteConfig_parse_split_first(host_str, user) ==
    LET has_port == Contains(host_str, <<":">>)
        port_text == SubSeq(host_str, Find(host_str, <<":">>) + 1, Len(host_str))
        user_host == IF has_port
                     THEN SubSeq(host_str, 1, Find(host_str, <<":">>) - 1)
                     ELSE host_str
        port == IF has_port THEN ParseU16(port_text) ELSE Some(22)
        has_user == Contains(user_host, <<"@">>)
        host == IF has_user THEN AfterFirst(user_host, <<"@">>) ELSE user_host
        username == IF has_user THEN BeforeFirst(user_host, <<"@">>) ELSE user
    IN  IF Trim(host_str) = <<>> THEN RErr("Host cannot be empty")
        ELSE IF ~port.some THEN RErr("Invalid port number")
        ELSE IF host = <<>> THEN RErr("Host cannot be empty")
        ELSE ROk([username |-> username, host |-> host, port |-> port.val,
                  key_path |-> FALSE])

RemoteConfig_parse_host_unchecked_after_at(host_str, user) ==
    LET has_port == Contains(host_str, <<":">>)
        port_text == SubSeq(host_str, RFind(host_str, <<":">>) + 1, Len(host_str))
        user_host == IF has_port
                     THEN SubSeq(host_str, 1, RFind(host_str, <<":">>) - 1)
                     ELSE host_str
        port == IF has_port THEN ParseU16(port_text) ELSE Some(22)
        has_user == Contains(user_host, <<"@">>)
        host == IF has_user THEN AfterFirst(user_host, <<"@">>) ELSE user_host
        username == IF has_user THEN BeforeFirst(user_host, <<"@">>) ELSE user
    IN  IF Trim(host_str) = <<>> THEN RErr("Host cannot be empty")
        ELSE IF ~port.some THEN RErr("Invalid port number")
        ELSE IF host = <<>> /\ ~has_user THEN RErr("Host cannot be empty")
        ELSE ROk([username |-> username, host |-> host, port |-> port.val,
                  key_path |-> FALSE])

\* RemoteConfig::parse; user is the name the environment gives (USER,
\* USERNAME, else "root")
RemoteConfig_parse(host_str, user) ==
    LET has_port == Contains(host_str, <<":">>)
        port_text == SubSeq(host_str, RFind(host_str, <<":">>) + 1, Len(host_str))
        user_host == IF has_port
                     THEN SubSeq(host_str, 1, RFind(host_str, <<":">>) - 1)
                     ELSE host_str
        port == IF has_port THEN ParseU16(port_text) ELSE Some(22)
        has_user == Contains(user_host, <<"@">>)
        host == IF has_user THEN AfterFirst(user_host, <<"@">>) ELSE user_host
        username == IF has_user THEN BeforeFirst(user_host, <<"@">>) ELSE user
    IN  IF Trim(host_str) = <<>> THEN RErr("Host cannot be empty")
        ELSE IF ~port.some THEN RErr("Invalid port number")
        ELSE IF host = <<>> THEN RErr("Host cannot be empty")
        ELSE ROk([username |-> username, host |-> host, port |-> port.val,
                  key_path |-> FALSE])

\* RemoteConfig::with_key
with_key(config) == [config EXCEPT !.key_path = TRUE]

\* RemoteConfig::display
display(config) == config.username \o <<"@">> \o config.host \o <<":">> \o Dec(config.port)

----------------------------------------------------------------------------
(* app.rs: App. The sort setting (sort_column, sort_order) stays at its    *)
(* default (Port, Ascending) here.                                         *)

\* char::to_lowercase on the letters the model types
LowerChar(c) ==
    IF c = "A" THEN "a" ELSE IF c = "B" THEN "b" ELSE IF c = "H" THEN "h" ELSE c
ToLower(t) == [i \in 1..Len(t) |-> LowerChar(t[i])]

\* App::new
AppNew ==
    [entries |-> <<>>, selected_index |-> 0, status_message |-> "Info",
     status_age |-> 0, should_quit |-> FALSE, filter |-> <<>>,
     filter_mode |-> FALSE, show_help |-> FALSE, compiled_regex |-> None,
     filter_is_regex |-> FALSE, remote_host |-> None,
     connect_mode |-> FALSE, connect_key_mode |-> FALSE,
     connect_input |-> <<>>, connect_key_input |-> <<>>]

\* App::set_info, App::set_success, App::set_error
set_info(app) == [app EXCEPT !.status_message = "Info", !.status_age = 0]
set_success(app) == [app EXCEPT !.status_message = "Success", !.status_age = 0]
set_error(app) == [app EXCEPT !.status_message = "Error", !.status_age = 0]

STATUS_DURATION == 5

\* App::maybe_clear_status
maybe_clear_status(app) ==
    IF app.status_age > STATUS_DURATION THEN [app EXCEPT !.status_message = "Info"]
    ELSE app

\* App::set_remote_host
set_remote_host(app, host) == [app EXCEPT !.remote_host = host]

\* App::toggle_help
toggle_help(app) == [app EXCEPT !.show_help = ~app.show_help]

\* App::quit
quit(app) == [app EXCEPT !.should_quit = TRUE]

\* Regex::is_match of "(?i)" + pattern, for patterns made of letters and
\* digits only
is_match(pattern, text) == Contains(ToLower(text), ToLower(pattern))

\* the retain() predicates of update_entries
Retained(app, e) ==
    IF app.compiled_regex.some
    THEN \/ is_match(app.compiled_regex.val, e.process_name)
         \/ is_match(app.compiled_regex.val, Dec(e.port))
         \/ is_match(app.compiled_regex.val, Dec(e.pid))
    ELSE \/ Contains(ToLower(e.process_name), ToLower(app.filter))
         \/ Contains(Dec(e.port), ToLower(app.filter))
         \/ Contains(Dec(e.pid), ToLower(app.filter))

RECURSIVE InsertBeforeTies(_, _)
InsertBeforeTies(sorted, e) ==
    IF Len(sorted) = 0 THEN <<e>>
    ELSE IF Last(sorted).port < e.port THEN Append(sorted, e)
    ELSE Append(InsertBeforeTies(Front(sorted), e), Last(sorted))

RECURSIVE sort_entries_unstable(_)
sort_entries_unstable(list) ==
    IF Len(list) = 0 THEN <<>>
    ELSE InsertBeforeTies(sort_entries_unstable(Front(list)), Last(list))

RECURSIVE InsertByPort(_, _)
\* App::sort_entries with SortColumn::Port and SortOrder::Ascending: a stable
\* sort by port
InsertByPort(sorted, e) ==
    IF Len(sorted) = 0 THEN <<e>>
    ELSE IF Last(sorted).port <= e.port THEN Append(sorted, e)
    ELSE Append(InsertByPort(Front(sorted), e), Last(sorted))

RECURSIVE sort_entries(_)
sort_entries(list) ==
    IF Len(list) = 0 THEN <<>>
    ELSE InsertByPort(sort_entries(Front(list)), Last(list))

update_entries_unclamped(app, list) ==
    LET kept == IF app.filter # <<>>
                THEN SelectSeq(list, LAMBDA e : Retained(app, e))
                ELSE list
    IN  [app EXCEPT !.entries = sort_entries(kept)]

update_entries_clamps_to_first(app, list) ==
    LET kept == IF app.filter # <<>>
                THEN SelectSeq(list, LAMBDA e : Retained(app, e))
                ELSE list
        shown == sort_entries(kept)
    IN  [app EXCEPT !.entries = shown,
                    !.selected_index =
                        IF app.selected_index >= Len(shown)
                        THEN 0 ELSE app.selected_index]

\* App::update_entries
update_entries(app, list) ==
    LET kept == IF app.filter # <<>>
                THEN SelectSeq(list, LAMBDA e : Retained(app, e))
                ELSE list
        shown == sort_entries(kept)
    IN  [app EXCEPT !.entries = shown,
                    !.selected_index =
                        IF Len(shown) > 0 /\ app.selected_index >= Len(shown)
                        THEN Len(shown) - 1 ELSE app.selected_index]

\* App::try_compile_filter_regex, for filters made of letters and digits:
\* every such filter compiles
try_compile_filter_regex(app) ==
    IF app.filter = <<>>
    THEN [app EXCEPT !.compiled_regex = None, !.filter_is_regex = FALSE]
    ELSE [app EXCEPT !.compiled_regex = Some(app.filter), !.filter_is_regex = TRUE]

\* App::enter_filter_mode, App::exit_filter_mode, App::clear_filter
enter_filter_mode(app) == set_info([app EXCEPT !.filter_mode = TRUE])
exit_filter_mode(app) ==
    set_info(try_compile_filter_regex([app EXCEPT !.filter_mode = FALSE]))
clear_filter(app) ==
    set_info([app EXCEPT !.filter = <<>>, !.compiled_regex = None,
                         !.filter_is_regex = FALSE, !.filter_mode = FALSE])

\* App::filter_push, App::filter_pop
filter_push(app, c) == [app EXCEPT !.filter = Append(app.filter, c)]
filter_pop(app) ==
    [app EXCEPT !.filter = IF app.filter = <<>> THEN <<>> ELSE Front(app.filter)]

select_next_stops_at_end(app) ==
    IF app.entries = <<>> THEN app
    ELSE IF app.selected_index < Len(app.entries) - 1
    THEN [app EXCEPT !.selected_index = app.selected_index + 1]
    ELSE app

\* App::select_previous, App::select_next
select_previous(app) ==
    IF app.entries = <<>> THEN app
    ELSE IF app.selected_index > 0
    THEN [app EXCEPT !.selected_index = app.selected_index - 1]
    ELSE [app EXCEPT !.selected_index = Len(app.entries) - 1]
select_next(app) ==
    IF app.entries = <<>> THEN app
    ELSE IF app.selected_index < Len(app.entries) - 1
    THEN [app EXCEPT !.selected_index = app.selected_index + 1]
    ELSE [app EXCEPT !.selected_index = 0]

RECURSIVE Times(_, _, _)
\* for _ in 0..n { step }
Times(n, step, app) ==
    IF n = 0 THEN app
    ELSE Times(n - 1, step,
               IF step = "next" THEN select_next(app) ELSE select_previous(app))

\* App::selected_entry
selected_entry(app) ==
    IF app.selected_index < Len(app.entries)
    THEN Some(app.entries[app.selected_index + 1]) ELSE None

\* App::cycle_sort_column, App::toggle_sort_order, App::sort_by_column, on the
\* fields modelled: the status line
sort_key(app) == set_info(app)

\* The connect dialogue of App. app.rs as given has no connect_mode,
\* connect_key_mode, connect_input, connect_key_input, enter_connect_mode,
\* exit_connect_mode, enter_connect_key_mode, connect_push, connect_pop or
\* disconnect; they are modelled as main.rs uses them and its tests
\* describe them.
enter_connect_mode(app) ==
    set_info([app EXCEPT !.connect_mode = TRUE, !.connect_key_mode = FALSE,
                         !.connect_input = <<>>, !.connect_key_input = <<>>])
exit_connect_mode(app) ==
    [app EXCEPT !.connect_mode = FALSE, !.connect_key_mode = FALSE,
                !.connect_input = <<>>, !.connect_key_input = <<>>]
enter_connect_key_mode(app) == set_info([app EXCEPT !.connect_key_mode = TRUE])
connect_push(app, c) ==
    IF app.connect_key_mode
    THEN [app EXCEPT !.connect_key_input = Append(app.connect_key_input, c)]
    ELSE [app EXCEPT !.connect_input = Append(app.connect_input, c)]
connect_pop(app) ==
    IF app.connect_key_mode
    THEN [app EXCEPT !.connect_key_input =
                IF app.connect_key_input = <<>> THEN <<>>
                ELSE Front(app.connect_key_input)]
    ELSE [app EXCEPT !.connect_input =
                IF app.connect_input = <<>> THEN <<>> ELSE Front(app.connect_input)]
disconnect(app) == set_info([app EXCEPT !.remote_host = None])

----------------------------------------------------------------------------
(* main.rs: ScannerMode and the key handlers. Each handler is given env,   *)
(* the answers of the outside world it may ask for: local_list (what the   *)
(* local scanner returns), uname / out1 / out2 (what the remote host       *)
(* prints), connect (the outcomes of the steps of connect()), kill_ok      *)
(* (whether the kill succeeds), user (the local user name).                *)

\* ScannerMode::Local(Box::default()), ScannerMode::Remote(scanner)
ModeLocal == [kind |-> "Local", session |-> None, has_key |-> FALSE]
ModeRemote(sess, has_key) == [kind |-> "Remote", session |-> sess, has_key |-> has_key]

\* ScannerMode::scan; env.remote_scans holds what RemoteScanner::scan returns
\* at this moment, for each session the scanner may hold
mode_scan(mode, env) ==
    IF mode.kind = "Local" THEN env.local_list
    ELSE LET r == (CHOOSE x \in env.remote_scans : x.sess = mode.session).r.result
         IN  IF r.ok THEN r.val ELSE <<>>

\* ScannerMode::kill_process, as Ok or Err
mode_kill_process(mode, pid, env) ==
    IF mode.kind = "Local" THEN env.kill_ok
    ELSE is_connected(mode.session) /\ env.kill_ok

\* what a handler leaves behind: the App, the scanner mode, how many scans
\* it made and what became of a connect or disconnect, or that a kill was
\* asked of the scanner
Handled(app, mode, scans, outcome) ==
    [app |-> app, mode |-> mode, scans |-> scans, outcome |-> outcome]

handle_kill_then_rescan(app, mode, env) ==
    IF selected_entry(app).some
    THEN IF mode_kill_process(mode, selected_entry(app).val.pid, env)
         THEN Handled(update_entries(set_success(app), mode_scan(mode, env)),
                      mode, 1, "kill")
         ELSE Handled(set_error(app), mode, 0, "kill")
    ELSE Handled(set_info(app), mode, 0, "-")

\* handle_kill
handle_kill(app, mode, env) ==
    IF selected_entry(app).some
    THEN IF mode_kill_process(mode, selected_entry(app).val.pid, env)
         THEN Handled(set_success(app), mode, 0, "kill")
         ELSE Handled(set_error(app), mode, 0, "kill")
    ELSE Handled(set_info(app), mode, 0, "-")

\* handle_disconnect
handle_disconnect(app, mode, env) ==
    Handled(update_entries(disconnect(app), mode_scan(ModeLocal, env)),
            ModeLocal, 1, "disconnected")

handle_connect_switches_first(app, mode, env) ==
    LET host_str == Trim(app.connect_input)
        parsed == RemoteConfig_parse(host_str, env.user)
        config == IF app.connect_key_input # <<>> THEN with_key(parsed.val)
                  ELSE parsed.val
        c == connect(None, config.key_path, env.connect)
        remote == ModeRemote(c.session, config.key_path)
    IN  IF host_str = <<>>
        THEN Handled(exit_connect_mode(set_error(app)), mode, 0, "connect failed")
        ELSE IF ~parsed.ok
        THEN Handled(exit_connect_mode(set_error(set_info(app))), mode, 0,
                     "connect failed")
        ELSE IF c.result.ok
        THEN Handled(update_entries(
                        exit_connect_mode(set_success(
                            set_remote_host(set_info(app), Some(display(config))))),
                        mode_scan(remote, env)),
                     remote, 1, "connected")
        ELSE Handled(set_error(set_info(app)), remote, 0, "connect failed")

\* handle_connect
handle_connect(app, mode, env) ==
    LET host_str == Trim(app.connect_input)
        parsed == RemoteConfig_parse(host_str, env.user)
        config == IF app.connect_key_input # <<>> THEN with_key(parsed.val)
                  ELSE parsed.val
        c == connect(None, config.key_path, env.connect)
        remote == ModeRemote(c.session, config.key_path)
    IN  IF host_str = <<>>
        THEN Handled(exit_connect_mode(set_error(app)), mode, 0, "connect failed")
        ELSE IF ~parsed.ok
        THEN Handled(exit_connect_mode(set_error(set_info(app))), mode, 0,
                     "connect failed")
        ELSE IF c.result.ok
        THEN Handled(update_entries(
                        exit_connect_mode(set_success(
                            set_remote_host(set_info(app), Some(display(config))))),
                        mode_scan(remote, env)),
                     remote, 1, "connected")
        ELSE Handled(set_error(set_info(app)), mode, 0, "connect failed")

\* a key event: KeyCode and whether Ctrl is held
Key(code) == [code |-> code, ch |-> "", ctrl |-> FALSE]
Char(c) == [code |-> "Char", ch |-> c, ctrl |-> FALSE]
Ctrl(c) == [code |-> "Char", ch |-> c, ctrl |-> TRUE]

\* handle_connect_input
handle_connect_input(app, mode, key, env) ==
    IF key.code = "Enter"
    THEN IF app.connect_key_mode THEN handle_connect(app, mode, env)
         ELSE IF app.connect_input # <<>>
         THEN Handled(enter_connect_key_mode(app), mode, 0, "-")
         ELSE Handled(app, mode, 0, "-")
    ELSE IF key.code = "Esc"
    THEN IF app.connect_key_mode
         THEN Handled([app EXCEPT !.connect_key_mode = FALSE,
                                  !.connect_key_input = <<>>], mode, 0, "-")
         ELSE Handled(exit_connect_mode(app), mode, 0, "-")
    ELSE IF key.code = "Backspace" THEN Handled(connect_pop(app), mode, 0, "-")
    ELSE IF key.code = "Tab" /\ ~app.connect_key_mode /\ app.connect_input # <<>>
    THEN handle_connect(app, mode, env)
    ELSE IF key.code = "Char" THEN Handled(connect_push(app, key.ch), mode, 0, "-")
    ELSE Handled(app, mode, 0, "-")

\* handle_filter_input
handle_filter_input(app, key) ==
    IF key.code = "Enter" THEN exit_filter_mode(app)
    ELSE IF key.code = "Esc" THEN exit_filter_mode([app EXCEPT !.filter = <<>>])
    ELSE IF key.code = "Backspace" THEN filter_pop(app)
    ELSE IF key.code = "Char" THEN filter_push(app, key.ch)
    ELSE app

SortChars == {"s", "r", "P", "O", "I", "N", "C", "M", "1", "2", "3", "4", "5", "6"}

\* the match of handle_key_event, arm by arm
normal_key(app, mode, key, env) ==
    LET is(c) == key.code = "Char" /\ key.ch = c
    IN  IF is("q") \/ is("Q") THEN Handled(quit(app), mode, 0, "-")
        ELSE IF is("c") /\ key.ctrl THEN Handled(quit(app), mode, 0, "-")
        ELSE IF is("?") THEN Handled(toggle_help(app), mode, 0, "-")
        ELSE IF key.code = "Up" \/ is("k")
        THEN Handled(select_previous(app), mode, 0, "-")
        ELSE IF key.code = "Down" \/ is("j")
        THEN Handled(select_next(app), mode, 0, "-")
        ELSE IF key.code = "PageUp" THEN Handled(Times(10, "previous", app), mode, 0, "-")
        ELSE IF key.code = "PageDown" THEN Handled(Times(10, "next", app), mode, 0, "-")
        ELSE IF key.code = "Home"
        THEN Handled([app EXCEPT !.selected_index = 0], mode, 0, "-")
        ELSE IF key.code = "End"
        THEN Handled(IF app.entries # <<>>
                     THEN [app EXCEPT !.selected_index = Len(app.entries) - 1]
                     ELSE app, mode, 0, "-")
        ELSE IF key.code = "Enter" THEN handle_kill(app, mode, env)
        ELSE IF is("K") /\ key.ctrl THEN handle_kill(app, mode, env)
        ELSE IF key.code = "Char" /\ key.ch \in SortChars
        THEN Handled(sort_key(app), mode, 0, "-")
        ELSE IF is("/") THEN Handled(enter_filter_mode(app), mode, 0, "-")
        ELSE IF is("c") /\ ~key.ctrl THEN Handled(enter_connect_mode(app), mode, 0, "-")
        ELSE IF (is("d") \/ is("D")) /\ app.remote_host.some
        THEN handle_disconnect(app, mode, env)
        ELSE IF key.code = "Esc"
        THEN Handled(IF app.filter # <<>> THEN clear_filter(app) ELSE app, mode, 0, "-")
        ELSE Handled(app, mode, 0, "-")

handle_key_event_help_passes_key(app, mode, key, env) ==
    IF app.filter_mode THEN Handled(handle_filter_input(app, key), mode, 0, "-")
    ELSE IF app.connect_mode
    THEN handle_connect_input([app EXCEPT !.show_help = FALSE], mode, key, env)
    ELSE normal_key([app EXCEPT !.show_help = FALSE], mode, key, env)

\* handle_key_event
handle_key_event(app, mode, key, env) ==
    IF app.show_help THEN Handled([app EXCEPT !.show_help = FALSE], mode, 0, "-")
    ELSE IF app.filter_mode THEN Handled(handle_filter_input(app, key), mode, 0, "-")
    ELSE IF app.connect_mode THEN handle_connect_input(app, mode, key, env)
    ELSE normal_key(app, mode, key, env)

scan_due_on_every_poll(elapsed, interval) == elapsed >= 0

\* last_scan.elapsed() >= scan_interval
scan_due(elapsed, interval) == elapsed >= interval

----------------------------------------------------------------------------
(* The surroundings of the local scanner: processes, sockets, command      *)
(* output.                                                                 *)

MaxTime == 11       \* the clock stops here
MaxRawDelay == 1    \* seconds the raw UDP enumeration may take
MaxLines == 2       \* lines of command output after any header
MaxListeners == 2   \* TCP listeners returned by one enumeration

SeqsUpTo(S, n) == UNION {[1..k -> S] : k \in 0..n}

Pids == {1, 2}

\* pid 1, when it runs, is an orphan over the threshold or exactly on it;
\* pid 2, when it runs, is over the threshold and has a parent
InfosOf(pid) ==
    IF pid = 1
    THEN { ProcessInfo(<<"a">>, 41, 2048, FALSE),
           ProcessInfo(<<"a">>, 40, 1536, FALSE) }
    ELSE { ProcessInfo(<<"b">>, 41, 1024, TRUE) }

ProcessInfos == UNION {InfosOf(p) : p \in Pids}

ProcessMaps ==
    { pm \in UNION {[S -> ProcessInfos] : S \in SUBSET Pids} :
        \A p \in DOMAIN pm : pm[p] \in InfosOf(p) }

Listeners ==
    { [port |-> 53, pid |-> 1, name |-> <<"a">>],
      [port |-> 53, pid |-> 2, name |-> <<"b">>] }

TcpResults == {Err} \cup {Ok(l) : l \in SeqsUpTo(Listeners, MaxListeners)}

LsofHeader == Line(<<<<"C", "O", "M", "M", "A", "N", "D">>, <<"P", "I", "D">>>>)

\* COMMAND PID USER FD TYPE DEVICE SIZE/OFF NODE NAME
LsofLine(command, pid, name) ==
    Line(<<command, Dec(pid), <<"u">>, <<"5", "u">>, <<"I", "P", "v", "4">>,
           <<"0", "x", "1">>, <<"0", "t", "0">>, <<"U", "D", "P">>, name>>)

\* a socket of pid 1 on port 53, one of pid 2 on port 22, and a line that is
\* too short
LsofLines ==
    { LsofLine(<<"a">>, 1, <<"*", ":", "5", "3">>),
      LsofLine(<<"b">>, 2, <<"[", ":", ":", "1", "]", ":", "2", "2">>),
      Line(<<<<"a">>, <<"x">>>>) }

LsofOutputs ==
    { CmdOutput(FALSE, FALSE, <<>>), CmdOutput(TRUE, FALSE, <<>>),
      CmdOutput(TRUE, TRUE, <<>>) }
    \cup {CmdOutput(TRUE, TRUE, Unlines(<<LsofHeader>> \o b)) :
            b \in SeqsUpTo(LsofLines, MaxLines)}

\* Proto Recv-Q Send-Q Local-Address Foreign-Address PID/Program
NetstatLine(proto, local, foreign, pid_prog) ==
    Line(<<proto, <<"0">>, <<"0">>, local, foreign, pid_prog>>)

\* the same two sockets, and a line that holds the protocol alone
NetstatLines ==
    { NetstatLine(<<"u", "d", "p">>, <<"0", ":", "5", "3">>, <<"0", ":", "*">>,
                  <<"1", "/", "a">>),
      NetstatLine(<<"u", "d", "p", "6">>, <<":", ":", ":", "2", "2">>,
                  <<":", ":", ":", "*">>, <<"2", "/", "b">>),
      <<"u", "d", "p">> }

NetstatHeader == Line(<<<<"P", "r", "o", "t", "o">>, <<"L", "o", "c", "a", "l">>>>)

NetstatOutputs ==
    { CmdOutput(FALSE, FALSE, <<>>), CmdOutput(TRUE, FALSE, <<>>) }
    \cup {CmdOutput(TRUE, TRUE, Unlines(<<NetstatHeader>> \o b)) :
            b \in SeqsUpTo(NetstatLines, MaxLines)}

\* `netstat -an -p udp` prints the port after a dot and no program column
NetstatBsdOutputs ==
    { CmdOutput(FALSE, FALSE, <<>>),
      CmdOutput(TRUE, TRUE,
                Unlines(<<Line(<<<<"u", "d", "p", "4">>, <<"0">>, <<"0">>,
                                 <<"*", ".", "5", "3">>, <<"*", ".", "*">>>>)>>)) }

\* everything one raw UDP enumeration can return on these outputs
RawUdpOutcomes ==
    { scan_udp_ports_raw(l, n1, n2) :
        l \in LsofOutputs, n1 \in NetstatOutputs, n2 \in NetstatBsdOutputs }

----------------------------------------------------------------------------
(* The local scanner as a state machine                                    *)

\* Scanner::new
InitScanner ==
    /\ now = UDP_CACHE_DURATION
    /\ udp_cache = <<>>
    /\ udp_cache_time = now - UDP_CACHE_DURATION
    /\ last_raw_done = -1
    /\ entries = <<>>
    /\ process_map = <<>>
    /\ tcp_in = Err
    /\ udp_source = "idle"
    /\ due = FALSE

NoSteps == [transport |-> FALSE, handshake |-> FALSE, auth |-> FALSE]
NoAuth == [tried |-> <<>>, methods |-> <<>>]
NoEnv == [kind |-> "none"]

\* RemoteScanner::new, with or without config.with_key
InitRemote ==
    /\ session = None
    /\ key_path = FALSE
    /\ remote_op = [op |-> "idle", was_connected |-> FALSE]
    /\ remote_result = ROk(<<>>)
    /\ exec_log = <<>>
    /\ connect_steps = NoSteps
    /\ auth_log = NoAuth
    /\ remote_env = NoEnv

\* no local kill has been called
InitKill ==
    /\ kill_op = "idle"
    /\ kill_env = NoEnv
    /\ kill_result = KOk
    /\ kill_log = <<>>

\* what a scan of the loop was made against: whether the TCP enumeration of
\* the local system answered, the UDP rows its cache held, whether the remote
\* host answered every command
NoSrc == [tcp_ok |-> TRUE, udp |-> <<>>, remote_ok |-> TRUE]

NoStep ==
    [kind |-> "none", scans |-> 0, outcome |-> "-", due |-> FALSE, src |-> NoSrc,
     list |-> <<>>]

DEFAULT_SCAN_INTERVAL == 2

\* run() has not started
InitLoop ==
    /\ the_app = AppNew
    /\ scanner_mode = ModeLocal
    /\ scan_interval = DEFAULT_SCAN_INTERVAL
    /\ since_scan = 0
    /\ pc = "start"
    /\ loop_step = NoStep

\* everything but the single call
InitProgram == InitScanner /\ InitRemote /\ InitKill /\ InitLoop

NoCall == [fn |-> "none"]

Init == InitProgram /\ call = NoCall

\* whether a UDP refresh is due on the clock alone: never refreshed, or the
\* last raw enumeration returned UDP_CACHE_DURATION or more ago
RefreshDue == last_raw_done = -1 \/ now - last_raw_done >= UDP_CACHE_DURATION

\* one Scanner::scan that found the UDP cache stale and refreshed it
ScanRefresh ==
    /\ udp_source = "idle"
    /\ cache_expired(now - udp_cache_time)
    /\ \E pm \in ProcessMaps, tcp \in TcpResults, raw \in RawUdpOutcomes,
          d \in 0..MaxRawDelay :
         LET r == refresh_udp_cache(raw, now + d)
         IN  /\ now + d <= MaxTime
             /\ now' = now + d
             /\ udp_cache' = r.udp_cache
             /\ udp_cache_time' = r.udp_cache_time
             /\ last_raw_done' = now + d
             /\ entries' = scan(pm, tcp, r.udp_cache)
             /\ process_map' = pm
             /\ tcp_in' = tcp
             /\ udp_source' = raw.source
    /\ due' = RefreshDue
    /\ UNCHANGED nonScannerVars

\* one Scanner::scan that served the UDP rows from the cache
ScanCached ==
    /\ udp_source = "idle"
    /\ ~cache_expired(now - udp_cache_time)
    /\ \E pm \in ProcessMaps, tcp \in TcpResults :
         /\ entries' = scan(pm, tcp, udp_cache)
         /\ process_map' = pm
         /\ tcp_in' = tcp
    /\ udp_source' = "cache"
    /\ due' = RefreshDue
    /\ UNCHANGED <<now, udp_cache, udp_cache_time, last_raw_done>>
    /\ UNCHANGED nonScannerVars

\* the caller has consumed the returned list (app.update_entries(entries))
DropEntries ==
    /\ udp_source # "idle"
    /\ entries' = <<>>
    /\ process_map' = <<>>
    /\ tcp_in' = Err
    /\ udp_source' = "idle"
    /\ due' = FALSE
    /\ UNCHANGED <<now, udp_cache, udp_cache_time, last_raw_done>>
    /\ UNCHANGED nonScannerVars

\* time passes between scans
Tick ==
    /\ udp_source = "idle"
    /\ now < MaxTime
    /\ now' = now + 1
    /\ UNCHANGED <<udp_cache, udp_cache_time, last_raw_done, entries,
                   process_map, tcp_in, udp_source, due>>
    /\ UNCHANGED nonScannerVars

NextScanner == ScanRefresh \/ ScanCached \/ DropEntries \/ Tick

SpecScanner == Init /\ [][NextScanner]_vars

----------------------------------------------------------------------------
(* Claims about the local scanner, checked under SpecScanner               *)

Returned == udp_source # "idle"

UdpIndexes == {i \in 1..Len(entries) : entries[i].protocol = "Udp"}
TcpIndexes == {i \in 1..Len(entries) : entries[i].protocol = "Tcp"}

\* C1: after every local scan, each returned entry is a zombie exactly when
\* its cpu_usage is above 40 and it has no parent; an entry at exactly 40 is
\* not a zombie.
C1_ZombieIffHighCpuOrphan ==
    Returned =>
        \A i \in 1..Len(entries) :
            entries[i].is_zombie
                = (entries[i].cpu_usage > 40 /\ entries[i].has_parent = FALSE)

\* a returned list with a zombie, and with an entry over the threshold that
\* has a parent and is no zombie
C1_Witness ==
    /\ Returned
    /\ \E i \in 1..Len(entries) : entries[i].is_zombie
    /\ \E i \in 1..Len(entries) :
            /\ entries[i].cpu_usage > 40
            /\ entries[i].has_parent
            /\ ~entries[i].is_zombie

\* C2: the returned list is ordered by (port ascending, TCP before UDP,
\* memory descending): each adjacent pair is in that order.
C2_SortedByCompositeKey ==
    Returned =>
        \A i \in 1..(Len(entries) - 1) :
            LET a == entries[i]
                b == entries[i + 1]
            IN  \/ a.port < b.port
                \/ a.port = b.port /\ a.protocol = "Tcp" /\ b.protocol = "Udp"
                \/ /\ a.port = b.port
                   /\ a.protocol = b.protocol
                   /\ a.memory_usage >= b.memory_usage

\* a returned list that starts with a UDP entry (moved ahead of the TCP
\* entries), and holds a TCP and a UDP entry on one port and two entries
\* of one port and protocol with different memory, the listeners having been
\* enumerated with the smaller one first
C2_Witness ==
    /\ Returned
    /\ Len(entries) >= 4
    /\ entries[1].protocol = "Udp"
    /\ entries[1].port < entries[2].port
    /\ \E i \in 1..(Len(entries) - 1) :
            /\ entries[i].port = entries[i + 1].port
            /\ entries[i].protocol = "Tcp"
            /\ entries[i + 1].protocol = "Udp"
    /\ \E i \in 1..(Len(entries) - 1) :
            /\ entries[i].port = entries[i + 1].port
            /\ entries[i].protocol = entries[i + 1].protocol
            /\ entries[i].memory_usage > entries[i + 1].memory_usage
    /\ tcp_in.ok
    /\ Len(tcp_in.val) = 2
    /\ tcp_in.val[1].pid = 2
    /\ tcp_in.val[2].pid = 1

\* C3: a scan invokes the raw UDP enumeration exactly when none has run yet
\* (the first scan) or 5 seconds or more have passed since the last one
\* returned.
C3_RawScanIffIntervalElapsed ==
    Returned => ((udp_source # "cache") <=> due)

\* a scan 4 seconds after a refresh was served from the cache
C3_Witness ==
    /\ udp_source = "cache"
    /\ last_raw_done # -1
    /\ now - last_raw_done = UDP_CACHE_DURATION - 1

\* C4: a refresh in which both commands fail leaves the UDP cache as it was.
C4_FailedRefreshKeepsCache ==
    [][udp_source' = "failed" => udp_cache' = udp_cache]_vars

\* C5: in a scan served from the cache, a UDP entry whose pid is in the
\* process directory of that scan carries that directory's cpu, memory and
\* parent flag, and its port, pid and name are those of a cache row.
C5_CachedRowsCarryFreshStats ==
    udp_source = "cache" =>
        \A i \in UdpIndexes :
            /\ \E j \in 1..Len(udp_cache) :
                    /\ udp_cache[j].port = entries[i].port
                    /\ udp_cache[j].pid = entries[i].pid
                    /\ udp_cache[j].process_name = entries[i].process_name
            /\ entries[i].pid \in DOMAIN process_map =>
                    /\ entries[i].cpu_usage = process_map[entries[i].pid].cpu_usage
                    /\ entries[i].memory_usage = process_map[entries[i].pid].memory
                    /\ entries[i].has_parent = process_map[entries[i].pid].has_parent

\* a scan served from the cache returned a UDP entry of a running process
\* that uses memory
C5_Witness ==
    /\ udp_source = "cache"
    /\ \E i \in UdpIndexes :
            /\ entries[i].pid \in DOMAIN process_map
            /\ entries[i].memory_usage > 0
            /\ ~entries[i].has_parent

IsDefaultEntry(e, port, protocol, pid) ==
    /\ e.port = port
    /\ e.protocol = protocol
    /\ e.pid = pid
    /\ e.cpu_usage = 0
    /\ e.memory_usage = 0
    /\ e.has_parent = TRUE
    /\ e.is_zombie = FALSE

\* C6: a socket whose pid is missing from the scan's process directory still
\* yields an entry, with cpu 0, memory 0, has_parent true and is_zombie false,
\* for TCP and UDP alike; the scan returns one entry per socket.
C6_DirectoryMissUsesDefaults ==
    Returned =>
        /\ Len(entries) = Len(udp_cache) + (IF tcp_in.ok THEN Len(tcp_in.val) ELSE 0)
        /\ \A i \in 1..Len(entries) :
                entries[i].pid \notin DOMAIN process_map =>
                    IsDefaultEntry(entries[i], entries[i].port,
                                   entries[i].protocol, entries[i].pid)
        /\ tcp_in.ok =>
                \A k \in 1..Len(tcp_in.val) :
                    tcp_in.val[k].pid \notin DOMAIN process_map =>
                        \E i \in TcpIndexes :
                            IsDefaultEntry(entries[i], tcp_in.val[k].port, "Tcp",
                                           tcp_in.val[k].pid)
        /\ \A k \in 1..Len(udp_cache) :
                udp_cache[k].pid \notin DOMAIN process_map =>
                    \E i \in UdpIndexes :
                        IsDefaultEntry(entries[i], udp_cache[k].port, "Udp",
                                       udp_cache[k].pid)

\* a scan returned a TCP and a UDP entry of pids that are not in its
\* directory
C6_Witness ==
    /\ Returned
    /\ \E i \in TcpIndexes : entries[i].pid \notin DOMAIN process_map
    /\ \E i \in UdpIndexes : entries[i].pid \notin DOMAIN process_map

\* C7: the UDP cache never holds two rows with the same (port, pid).
C7_CacheHasNoDuplicateKey ==
    \A i \in 1..Len(udp_cache) :
        \A j \in 1..Len(udp_cache) :
            (udp_cache[i].port = udp_cache[j].port /\ udp_cache[i].pid = udp_cache[j].pid)
                => i = j

----------------------------------------------------------------------------
(* The far end of the remote scanner                                       *)

ExecOk(text) == [ok |-> TRUE, text |-> text, fail |-> "none"]
ExecFail(how) == [ok |-> FALSE, text |-> <<>>, fail |-> how]

ExecFailures == {ExecFail("channel"), ExecFail("exec"), ExecFail("read")}

OsLinux == ExecOk(<<"L", "i", "n", "u", "x", "\n">>)
OsDarwin == ExecOk(<<"D", "a", "r", "w", "i", "n", "\n">>)
OsOthers == {ExecOk(<<"F", "r", "e", "e", "B", "S", "D", "\n">>), ExecOk(<<>>)}

UsersColumn == <<"u", ":", "(", "(", "\"", "s", "\"", ",", "p", "i", "d", "=", "7",
                 ",", "f", "d", "=", "3", ")", ")">>

\* a line with a leading Netid column, a line in the six columns `ss -tlnp`
\* prints, a line with no Process column, and a line that is too short
SsLines ==
    { Line(<<<<"t", "c", "p">>, <<"L">>, <<"0">>, <<"0">>, <<"0", ":", "2", "2">>,
             <<"0", ":", "*">>, UsersColumn>>),
      Line(<<<<"L">>, <<"0">>, <<"0">>, <<"0", ":", "2", "2">>, <<"0", ":", "*">>,
             UsersColumn>>),
      Line(<<<<"u", "d", "p">>, <<"U">>, <<"0">>, <<"0">>,
             <<"[", ":", ":", "]", ":", "5", "3">>, <<"[", ":", ":", "]", ":", "*">>>>),
      Line(<<<<"L">>, <<"0">>>>) }

SsHeader == Line(<<<<"S", "t", "a", "t", "e">>, <<"R", "e", "c", "v", "-", "Q">>>>)

SsOutputs ==
    ExecFailures
    \cup {ExecOk(Unlines(<<SsHeader>> \o b)) : b \in SeqsUpTo(SsLines, MaxLines)}

\* a listening socket of pid 7, a line whose pid is not a number, and a line
\* that is too short
RemoteLsofLines ==
    { LsofLine(<<"n">>, 7, <<"*", ":", "8", "0">>),
      Line(<<<<"n">>, <<"x">>, <<"u">>, <<"5", "u">>, <<"I", "P", "v", "4">>,
             <<"0", "x", "1">>, <<"0", "t", "0">>, <<"T", "C", "P">>,
             <<"*", ":", "8", "0">>>>),
      Line(<<<<"n">>, <<"7">>>>) }

RemoteLsofOutputs ==
    ExecFailures
    \cup {ExecOk(Unlines(<<LsofHeader>> \o b)) : b \in SeqsUpTo(RemoteLsofLines, MaxLines)}

\* a listening TCP socket, an established TCP connection (as `netstat -an`
\* prints them), a UDP socket, and a listening socket printed with the port
\* after a dot
GenericLines ==
    { Line(<<<<"t", "c", "p">>, <<"0">>, <<"0">>, <<"0", ":", "2", "2">>,
             <<"0", ":", "*">>, <<"L", "I", "S", "T", "E", "N">>>>),
      Line(<<<<"t", "c", "p">>, <<"0">>, <<"0">>, <<"0", ":", "2", "5">>,
             <<"0", ":", "8", "0">>, <<"E", "S", "T">>>>),
      Line(<<<<"u", "d", "p">>, <<"0">>, <<"0">>, <<"0", ":", "5", "3">>,
             <<"0", ":", "*">>>>),
      Line(<<<<"x", "4">>, <<"0">>, <<"0">>, <<"*", ".", "2", "2">>, <<"*", ".", "*">>,
             <<"L", "I", "S", "T", "E", "N">>>>) }

GenericOutputs ==
    ExecFailures
    \cup {ExecOk(Unlines(<<NetstatHeader>> \o b)) : b \in SeqsUpTo(GenericLines, MaxLines)}

\* the far end's answers to the commands of one scan
RemoteScanEnvs ==
    {[uname |-> OsLinux, out1 |-> o1, out2 |-> o2] : o1 \in SsOutputs, o2 \in SsOutputs}
    \cup {[uname |-> OsDarwin, out1 |-> o1, out2 |-> o2] :
            o1 \in RemoteLsofOutputs, o2 \in RemoteLsofOutputs}
    \cup {[uname |-> u, out1 |-> o1, out2 |-> ExecFail("channel")] :
            u \in OsOthers \cup ExecFailures, o1 \in GenericOutputs}

\* the session connect() stores
Established == [stream |-> TRUE, handshaken |-> TRUE, authenticated |-> TRUE]

\* what scan() can return with and without a session
ConnectedScans ==
    {[env |-> e, r |-> scan_remote(Some(Established), e.uname, e.out1, e.out2)] :
        e \in RemoteScanEnvs}
DisconnectedScans ==
    {[env |-> e, r |-> scan_remote(None, e.uname, e.out1, e.out2)] :
        e \in RemoteScanEnvs}

KillOutputs ==
    ExecFailures
    \cup { ExecOk(<<>>),
           ExecOk(<<"N", "o", " ", "s", "u", "c", "h", " ",
                    "p", "r", "o", "c", "e", "s", "s", "\n">>),
           ExecOk(<<"O", "p", "e", "r", "a", "t", "i", "o", "n", " ", "n", "o", "t", " ",
                    "p", "e", "r", "m", "i", "t", "t", "e", "d", "\n">>),
           ExecOk(<<"P", "e", "r", "m", "i", "s", "s", "i", "o", "n", " ",
                    "d", "e", "n", "i", "e", "d", "\n">>),
           ExecOk(<<"P", "e", "r", "m", "i", "s", "s", "i", "o", "n", " ",
                    "d", "e", "n", "i", "e", "d", "\n",
                    "N", "o", " ", "s", "u", "c", "h", " ",
                    "p", "r", "o", "c", "e", "s", "s", "\n">>) }

RemotePids == {0, 7}

KeyStates == {"missing", "rejected", "accepted"}

\* the outcomes of the steps of one connect()
ConnectEnvs ==
    [fail_at : {"none", "addr", "tcp", "session", "handshake"},
     key_ok : BOOLEAN, agent_ok : BOOLEAN,
     default_keys : [1..3 -> KeyStates], confirmed : BOOLEAN]

\* what the far end did in a connect(), told from its answers alone: the
\* transport connected, the handshake completed, a credential the code
\* offers was accepted and the session reports it
StepsOf(has_key, env) ==
    LET transport == env.fail_at \notin {"addr", "tcp"}
        handshake == transport /\ env.fail_at = "none"
        accepted == IF has_key THEN env.key_ok
                    ELSE env.agent_ok \/ \E i \in 1..3 : env.default_keys[i] = "accepted"
    IN  [transport |-> transport, handshake |-> handshake,
         auth |-> handshake /\ accepted /\ env.confirmed]

\* the authentication methods that apply to a connect(), in the order key
\* file, agent, default key files present under ~/.ssh, each with the far
\* end's answer to it
MethodsOf(has_key, env) ==
    (IF has_key THEN <<[name |-> "key", accepted |-> env.key_ok, missing |-> FALSE]>>
     ELSE <<>>)
    \o <<[name |-> "agent", accepted |-> env.agent_ok, missing |-> FALSE]>>
    \o SelectSeq([i \in 1..3 |-> [name |-> DefaultKeys[i],
                                  accepted |-> env.default_keys[i] = "accepted",
                                  missing |-> env.default_keys[i] = "missing"]],
                 LAMBDA m : ~m.missing)

----------------------------------------------------------------------------
(* The remote scanner as a state machine                                   *)

RemoteIdle == remote_op.op = "idle"

\* RemoteScanner::new replaces the scanner (handle_connect, scan_ports)
RemoteNew ==
    /\ RemoteIdle
    /\ session' = None
    /\ key_path' \in BOOLEAN
    /\ UNCHANGED <<remote_op, remote_result, exec_log, connect_steps, auth_log,
                   remote_env>>
    /\ UNCHANGED nonRemoteVars

\* RemoteScanner::connect
Connect ==
    /\ RemoteIdle
    /\ \E env \in ConnectEnvs :
         LET r == connect(session, key_path, env)
         IN  /\ session' = r.session
             /\ remote_result' = r.result
             /\ connect_steps' = StepsOf(key_path, env)
             /\ auth_log' = [tried |-> r.tried, methods |-> MethodsOf(key_path, env)]
    /\ remote_op' = [op |-> "connect", was_connected |-> session.some]
    /\ exec_log' = <<>>
    /\ UNCHANGED <<key_path, remote_env>>
    /\ UNCHANGED nonRemoteVars

\* RemoteScanner::scan
RemoteScan ==
    /\ RemoteIdle
    /\ \E c \in (IF session.some THEN ConnectedScans ELSE DisconnectedScans) :
         /\ remote_result' = c.r.result
         /\ exec_log' = c.r.sent
         /\ remote_env' = [kind |-> "scan", uname |-> c.env.uname,
                           out1 |-> c.env.out1, out2 |-> c.env.out2]
    /\ remote_op' = [op |-> "scan", was_connected |-> session.some]
    /\ UNCHANGED <<session, key_path, connect_steps, auth_log>>
    /\ UNCHANGED nonRemoteVars

\* RemoteScanner::kill_process
RemoteKill ==
    /\ RemoteIdle
    /\ \E pid \in RemotePids, out \in KillOutputs :
         LET r == kill_process_remote(session, pid, out)
         IN  /\ remote_result' = r.result
             /\ exec_log' = r.sent
             /\ remote_env' = [kind |-> "kill", pid |-> pid, out |-> out]
    /\ remote_op' = [op |-> "kill", was_connected |-> session.some]
    /\ UNCHANGED <<session, key_path, connect_steps, auth_log>>
    /\ UNCHANGED nonRemoteVars

\* RemoteScanner::kill_process_force
RemoteKillForce ==
    /\ RemoteIdle
    /\ \E pid \in RemotePids, out \in KillOutputs :
         LET r == kill_process_force_remote(session, pid, out)
         IN  /\ remote_result' = r.result
             /\ exec_log' = r.sent
             /\ remote_env' = [kind |-> "kill", pid |-> pid, out |-> out]
    /\ remote_op' = [op |-> "kill_force", was_connected |-> session.some]
    /\ UNCHANGED <<session, key_path, connect_steps, auth_log>>
    /\ UNCHANGED nonRemoteVars

\* the caller has handled the result of the call
RemoteReturn ==
    /\ ~RemoteIdle
    /\ remote_op' = [op |-> "idle", was_connected |-> FALSE]
    /\ remote_result' = ROk(<<>>)
    /\ exec_log' = <<>>
    /\ connect_steps' = NoSteps
    /\ auth_log' = NoAuth
    /\ remote_env' = NoEnv
    /\ UNCHANGED <<session, key_path>>
    /\ UNCHANGED nonRemoteVars

NextRemote ==
    RemoteNew \/ Connect \/ RemoteScan \/ RemoteKill \/ RemoteKillForce
        \/ RemoteReturn

SpecRemote == Init /\ [][NextRemote]_vars

----------------------------------------------------------------------------
(* Claims about the remote scanner, checked under SpecRemote               *)

\* C8: every entry a remote scan returns has cpu_usage 0, memory_usage 0,
\* memory_display "-", has_parent true and is_zombie false, whichever parser
\* produced it.
C8_RemoteEntriesCarryNoStats ==
    (remote_op.op = "scan" /\ remote_result.ok) =>
        \A i \in 1..Len(remote_result.val) :
            LET e == remote_result.val[i]
            IN  /\ e.cpu_usage = 0
                /\ e.memory_usage = 0
                /\ e.memory_display = <<"-">>
                /\ e.has_parent = TRUE
                /\ e.is_zombie = FALSE

\* a remote scan over the macOS path returned a TCP and a UDP entry
C8_Witness ==
    /\ remote_op.op = "scan"
    /\ remote_result.ok
    /\ CmdLsofUdp \in {exec_log[i] : i \in 1..Len(exec_log)}
    /\ \E i \in 1..Len(remote_result.val) : remote_result.val[i].protocol = "Tcp"
    /\ \E i \in 1..Len(remote_result.val) :
            remote_result.val[i].protocol = "Udp" /\ remote_result.val[i].pid = 7

\* C9: scan, kill_process and kill_process_force on a scanner that holds no
\* session return the "Not connected" error and send no command.
C9_NotConnectedSendsNothing ==
    (remote_op.op \in {"scan", "kill", "kill_force"} /\ ~remote_op.was_connected) =>
        /\ ~remote_result.ok
        /\ remote_result.err = "Not connected to remote host"
        /\ exec_log = <<>>

\* a scan was called without a session
C9_Witness ==
    /\ remote_op.op = "scan"
    /\ ~remote_op.was_connected
    /\ ~session.some

\* C10: a held session is one whose transport, handshake and authentication
\* all succeeded; connect() returns Ok only in that case; and a connect()
\* on a scanner without a session in which one of them failed returns an
\* error and leaves it without a session.
C10_ConnectedOnlyAfterFullConnect ==
    /\ session.some =>
            /\ session.val.stream
            /\ session.val.handshaken
            /\ session.val.authenticated
    /\ remote_op.op = "connect" =>
            /\ remote_result.ok =>
                    /\ connect_steps.transport
                    /\ connect_steps.handshake
                    /\ connect_steps.auth
                    /\ session.some
            /\ (~remote_op.was_connected
                    /\ ~(connect_steps.transport /\ connect_steps.handshake
                            /\ connect_steps.auth)) =>
                    /\ ~remote_result.ok
                    /\ ~session.some

\* a connect() on a scanner without a session got through the handshake and
\* failed to authenticate
C10_Witness ==
    /\ remote_op.op = "connect"
    /\ ~remote_op.was_connected
    /\ connect_steps.handshake
    /\ ~connect_steps.auth
    /\ ~remote_result.ok

\* the errors of exec(): the command could not be run or its output read
FatalErrors ==
    {"Failed to open channel", "Failed to execute command", "Failed to read output"}

\* C11: after a scan or kill on a connected scanner fails with a fatal error
\* (the command could not be executed or read), the scanner holds no session,
\* so is_connected() is false and the next scan reports "not connected".
C11_FatalErrorDisconnects ==
    (/\ remote_op.op \in {"scan", "kill", "kill_force"}
     /\ remote_op.was_connected
     /\ ~remote_result.ok
     /\ remote_result.err \in FatalErrors) => ~is_connected(session)

\* the names of the methods up to and including the first accepted one
RECURSIVE TriedUntilAccepted(_)
TriedUntilAccepted(methods) ==
    IF Len(methods) = 0 THEN <<>>
    ELSE IF methods[1].accepted THEN <<methods[1].name>>
    ELSE <<methods[1].name>> \o TriedUntilAccepted(Tail(methods))

\* C12: a connect() that reaches authentication tries the methods that apply
\* in the order key file, agent, id_ed25519, id_rsa, id_ecdsa, stops at the
\* first that succeeds, and gives up only after all of them have failed; a
\* failing key file is followed by the agent and the default keys.
C12_AuthMethodsTriedInOrder ==
    (remote_op.op = "connect" /\ connect_steps.handshake) =>
        auth_log.tried = TriedUntilAccepted(auth_log.methods)

\* the operating system a scan detected, and the lines each parser was given
ScanOs == Trim(remote_env.uname.text)
ScanParser ==
    IF ScanOs = <<"L", "i", "n", "u", "x">> THEN "ss"
    ELSE IF ScanOs = <<"D", "a", "r", "w", "i", "n">> THEN "lsof"
    ELSE "netstat"
ScanAnswered ==
    /\ remote_op.op = "scan"
    /\ remote_op.was_connected
    /\ remote_env.uname.ok
    /\ remote_env.out1.ok
    /\ ScanParser # "netstat" => remote_env.out2.ok
TcpBatch ==
    IF ScanParser = "netstat" THEN Lines(remote_env.out1.text)
    ELSE Skip1(Lines(remote_env.out1.text))
UdpBatch ==
    IF ScanParser = "netstat" THEN <<>> ELSE Skip1(Lines(remote_env.out2.text))

\* a pid=<n> pattern in a column
HasPidPattern(col) ==
    \E i \in 1..Len(col) :
        /\ i + 4 <= Len(col)
        /\ SubSeq(col, i, i + 3) = <<"p", "i", "d", "=">>
        /\ IsDigit(col[i + 4])

\* a malformed line: fewer columns than the parser requires, or no parseable
\* pid where the parser reads one
Malformed(parser, line) ==
    LET parts == SplitWhitespace(line)
    IN  IF parser = "ss" THEN Len(parts) < 5 \/ ~HasPidPattern(Last(parts))
        ELSE IF parser = "lsof" THEN Len(parts) < 9 \/ ~ParseU32(parts[2]).some
        ELSE Len(parts) < 4

RECURSIVE WellFormedResults(_, _, _)
\* the results of the well-formed lines, each parsed alone, in line order
WellFormedResults(lines, parser, protocol) ==
    IF Len(lines) = 0 THEN <<>>
    ELSE (IF Malformed(parser, lines[1]) THEN <<>>
          ELSE FilterMap(<<lines[1]>>, parser, protocol))
            \o WellFormedResults(Tail(lines), parser, protocol)

\* C13: in each of the three remote parsers a malformed line yields no entry
\* and no error and does not affect the other lines: the entries of a scan
\* are exactly the per-line results of the well-formed lines, in line order.
C13_MalformedLinesAreSkipped ==
    ScanAnswered =>
        /\ remote_result.ok
        /\ remote_result.val =
                WellFormedResults(TcpBatch, ScanParser, "Tcp")
                    \o WellFormedResults(UdpBatch, ScanParser, "Udp")

\* C14: on the Linux path a line with fewer than five columns or with no
\* pid=<n> pattern in its last column produces no entry, and the scan still
\* succeeds.
C14_SsLineWithoutPidIsSkipped ==
    (ScanAnswered /\ ScanParser = "ss") =>
        /\ remote_result.ok
        /\ Len(remote_result.val) <=
                Cardinality({i \in 1..Len(TcpBatch) : ~Malformed("ss", TcpBatch[i])})
                + Cardinality({i \in 1..Len(UdpBatch) : ~Malformed("ss", UdpBatch[i])})

\* a kill whose command ran on the far end and whose output was read
KillAnswered ==
    /\ remote_op.op \in {"kill", "kill_force"}
    /\ remote_op.was_connected
    /\ remote_env.out.ok

\* C15: both remote kills classify the captured output: "No such process"
\* gives the not-found error; otherwise "Operation not permitted" or
\* "Permission denied" gives the permission error; any other output, empty
\* included, gives success. Not-found wins when both texts are present.
C15_KillOutputClassified ==
    KillAnswered =>
        LET text == remote_env.out.text
            not_found == Contains(text, NoSuchProcess)
            denied == Contains(text, OperationNotPermitted)
                        \/ Contains(text, PermissionDenied)
        IN  /\ not_found =>
                    ~remote_result.ok /\ remote_result.err = "Process not found"
            /\ (~not_found /\ denied) =>
                    /\ ~remote_result.ok
                    /\ remote_result.err =
                            "Permission denied. Try running with sudo on remote host."
            /\ (~not_found /\ ~denied) => remote_result.ok

\* a kill read an output holding both texts
C15_Witness ==
    /\ KillAnswered
    /\ Contains(remote_env.out.text, NoSuchProcess)
    /\ Contains(remote_env.out.text, PermissionDenied)
    /\ remote_result.err = "Process not found"

\* C16: a non-forced remote kill makes exactly one command round trip, whose
\* command sends the graceful signal first and the forced signal only as its
\* second stage; a forced remote kill makes exactly one round trip that
\* sends only the hard signal.
C16_KillCommandStages ==
    (remote_op.op \in {"kill", "kill_force"} /\ remote_op.was_connected) =>
        LET pid == remote_env.pid
            term == [signal |-> "TERM", pid |-> pid]
            hard == [signal |-> "KILL", pid |-> pid]
        IN  /\ Len(exec_log) <= 1
            /\ remote_env.out.fail # "channel" => Len(exec_log) = 1
            /\ (Len(exec_log) = 1 /\ remote_op.op = "kill") =>
                    exec_log[1].stages = <<term, hard>> /\ exec_log[1].chain = "||"
            /\ (Len(exec_log) = 1 /\ remote_op.op = "kill_force") =>
                    exec_log[1].stages = <<hard>>

\* a forced kill of pid 7 was sent
C16_Witness ==
    /\ remote_op.op = "kill_force"
    /\ remote_op.was_connected
    /\ Len(exec_log) = 1
    /\ remote_env.pid = 7
    /\ remote_result.ok

----------------------------------------------------------------------------
(* The local kills as a state machine                                      *)

KillPids == {1, 2, 3}

\* what the operating system does in one kill
KillEnvs ==
    [kind : {"kill"}, pid : KillPids,
     process : {None, Some(<<"a">>), Some(<<"b">>)},
     kill_ok : BOOLEAN, alive_after : BOOLEAN, spawn_ok : BOOLEAN]

\* kill_process(pid)
LocalKill ==
    /\ kill_op = "idle"
    /\ \E env \in KillEnvs :
         /\ kill_env' = env
         /\ kill_result' = kill_process(env.pid, env).result
         /\ kill_log' = kill_process(env.pid, env).log
    /\ kill_op' = "kill"
    /\ UNCHANGED nonKillVars

\* kill_process_force(pid)
LocalKillForce ==
    /\ kill_op = "idle"
    /\ \E env \in KillEnvs :
         /\ kill_env' = env
         /\ kill_result' = kill_process_force(env.pid, env).result
         /\ kill_log' = kill_process_force(env.pid, env).log
    /\ kill_op' = "kill_force"
    /\ UNCHANGED nonKillVars

\* the caller has handled the result
LocalKillReturn ==
    /\ kill_op # "idle"
    /\ kill_op' = "idle"
    /\ kill_env' = NoEnv
    /\ kill_result' = KOk
    /\ kill_log' = <<>>
    /\ UNCHANGED nonKillVars

NextKill == LocalKill \/ LocalKillForce \/ LocalKillReturn

SpecKill == Init /\ [][NextKill]_vars

----------------------------------------------------------------------------
(* Claims about the local kills, checked under SpecKill                    *)

\* the requests of one kind in the log of the call
Requests(ev) == {i \in 1..Len(kill_log) : kill_log[i].ev = ev}

\* C17: kill_process(pid) fails with the not-found error and sends no signal
\* when the pid is absent from a fresh snapshot; when present it issues one
\* termination request and returns success if the OS call succeeds and a
\* permission error naming the process if it fails. It never retries.
C17_LocalKillOutcome ==
    kill_op = "kill" =>
        /\ kill_log[1] = SysRefresh(kill_env.pid)
        /\ Cardinality(Requests("refresh")) = 1
        /\ Requests("kill -9") = {}
        /\ ~kill_env.process.some =>
                /\ kill_result = KNotFound(kill_env.pid)
                /\ Requests("process.kill") = {}
        /\ kill_env.process.some =>
                /\ Cardinality(Requests("process.kill")) = 1
                /\ kill_log[2] = SysKill(kill_env.pid)
                /\ kill_env.kill_ok => kill_result.ok
                /\ ~kill_env.kill_ok =>
                        kill_result = KPermission(kill_env.pid, kill_env.process.val)

\* the termination request of a present process was refused
C17_Witness ==
    /\ kill_op = "kill"
    /\ kill_env.process = Some(<<"b">>)
    /\ ~kill_env.kill_ok
    /\ kill_result.kind = "permission denied"

----------------------------------------------------------------------------
(* The presentation loop of run() as a state machine                       *)

MaxScanInterval == 1    \* args.scan_interval is drawn from 0..MaxScanInterval
MaxInput == 1           \* typing stops at this many characters

\* the lists the local scanner returns
LoopProcesses ==
    [p \in {1, 2} |-> IF p = 1 THEN ProcessInfo(<<"a">>, 0, 1024, TRUE)
                      ELSE ProcessInfo(<<"b">>, 41, 0, FALSE)]

\* the local system at a scan: nothing listening; a UDP socket of pid 2 in
\* the cache while the TCP enumeration fails; the same with a TCP listener of
\* pid 1 enumerated
LoopLocalSystems ==
    { [pm |-> <<>>, tcp |-> Ok(<<>>), cache |-> <<>>],
      [pm |-> LoopProcesses, tcp |-> Err,
       cache |-> <<UdpCacheEntry(80, 2, <<"b">>)>>],
      [pm |-> LoopProcesses, tcp |-> Ok(<<[port |-> 22, pid |-> 1, name |-> <<"a">>]>>),
       cache |-> <<UdpCacheEntry(80, 2, <<"b">>)>>] }

\* each with the list Scanner::scan returns for it
LoopLocalLists ==
    {[system |-> x, list |-> scan(x.pm, x.tcp, x.cache)] : x \in LoopLocalSystems}

\* what the remote host answers to a scan: one listening socket, or no channel
LoopRemoteAnswers ==
    { [uname |-> OsDarwin,
       out1 |-> ExecOk(Unlines(<<LsofHeader, LsofLine(<<"n">>, 7, <<"*", ":", "8", "0">>)>>)),
       out2 |-> ExecOk(Unlines(<<LsofHeader>>))],
      [uname |-> ExecFail("channel"), out1 |-> ExecFail("channel"),
       out2 |-> ExecFail("channel")] }

\* connect() succeeding, failing to reach the host, failing to authenticate
LoopConnectEnvs ==
    { [fail_at |-> f, key_ok |-> a, agent_ok |-> a,
       default_keys |-> [i \in 1..3 |-> "missing"], confirmed |-> TRUE] :
        f \in {"none", "tcp"}, a \in BOOLEAN }

\* the outside world at one step: every answer occurs, not every combination
LoopEnvs ==
    { e \in [local : LoopLocalLists, remote : LoopRemoteAnswers,
             connect : LoopConnectEnvs, kill_ok : BOOLEAN] :
        /\ e.kill_ok = (Len(e.local.list) # 1)
        /\ e.connect.fail_at = "tcp" => ~e.connect.agent_ok /\ Len(e.local.list) = 1
        /\ (e.connect.fail_at = "none" /\ ~e.connect.agent_ok) => Len(e.local.list) = 2
        /\ (e.connect.fail_at = "none" /\ e.connect.agent_ok) => Len(e.local.list) # 1
        /\ ~e.remote.uname.ok => Len(e.local.list) # 0 }

\* the sessions a RemoteScanner of the loop holds
LoopSessions == {None, Some(Established)}

\* the env record the handlers read
EnvOf(e) ==
    [local_list |-> e.local.list,
     src |-> [tcp_ok |-> e.local.system.tcp.ok, udp |-> e.local.system.cache,
              remote_ok |-> e.remote.uname.ok /\ e.remote.out1.ok /\ e.remote.out2.ok],
     remote_scans |-> {[sess |-> x, r |-> scan_remote(x, e.remote.uname, e.remote.out1,
                                                     e.remote.out2)] :
                         x \in LoopSessions},
     connect |-> e.connect, kill_ok |-> e.kill_ok, user |-> <<"u">>]

LoopWorlds == {EnvOf(e) : e \in LoopEnvs}

\* the part of the world a scan in this mode was made against
SrcSeen(mode, env) ==
    IF mode.kind = "Local" THEN [env.src EXCEPT !.remote_ok = TRUE]
    ELSE [NoSrc EXCEPT !.remote_ok = env.src.remote_ok]

\* the one world given to a step that asks nothing of it
Quiet(env) == env.local_list = <<>> /\ env.kill_ok

\* the keys pressed, and the characters typed into the filter and the
\* connect dialogue
TypedChars(a) ==
    IF a.connect_mode /\ ~a.filter_mode /\ ~a.connect_key_mode THEN {"a", ":"} ELSE {"a"}
\* the seconds that pass while event::poll waits
PollSeconds == {0, 2}
LoopKeys ==
    {Key(c) : c \in {"Enter", "Esc", "Backspace", "Tab", "Up", "Down", "PageUp",
                     "PageDown", "Home", "End", "F1"}}
    \cup {Char(c) : c \in {"q", "?", "/", "c", "d", "s", "a", ":"}}
    \cup {Ctrl("c"), Ctrl("K")}

\* whether the key is typed into a text of the filter or connect dialogue
Typing(a, key) ==
    ~a.show_help /\ (a.filter_mode \/ a.connect_mode) /\ key.code = "Char"
TypedInto(a) ==
    IF a.filter_mode THEN a.filter
    ELSE IF a.connect_key_mode THEN a.connect_key_input ELSE a.connect_input

\* whether handling the key may ask the outside world for something
AsksWorld(key) ==
    key.code \in {"Enter", "Tab"} \/ (key.code = "Char" /\ key.ch \in {"d", "K"})

\* time passing: d seconds more on both clocks run() reads
Later(t, d, cap) == IF t + d > cap THEN cap ELSE t + d
Aged(a, d) == [a EXCEPT !.status_age = Later(a.status_age, d, STATUS_DURATION + 1)]

\* run(), up to the loop: the scanner for args.host, the initial scan
Startup ==
    /\ pc = "start"
    /\ \E interval \in 0..MaxScanInterval, env \in LoopWorlds, identity \in BOOLEAN,
          host \in {None, Some(<<"a">>), Some(<<":">>)} :
         LET parsed == RemoteConfig_parse(host.val, env.user)
             config == IF identity THEN with_key(parsed.val) ELSE parsed.val
             c == connect(None, config.key_path, env.connect)
             mode == IF host.some THEN ModeRemote(c.session, config.key_path)
                     ELSE ModeLocal
             shown == set_info(set_remote_host(AppNew, Some(display(config))))
             app0 == IF ~host.some THEN AppNew
                     ELSE IF c.result.ok THEN set_success(shown) ELSE set_error(shown)
         IN  /\ scan_interval' = interval
             /\ IF host.some /\ ~parsed.ok
                THEN /\ pc' = "exit"
                     /\ UNCHANGED <<the_app, scanner_mode, loop_step>>
                ELSE /\ pc' = "poll"
                     /\ scanner_mode' = mode
                     /\ the_app' = update_entries(app0, mode_scan(mode, env))
                     /\ loop_step' = [NoStep EXCEPT !.kind = "start", !.scans = 1]
    /\ since_scan' = 0
    /\ UNCHANGED nonLoopVars

\* event::poll returned an event: handle_key_event
KeyEvent ==
    /\ pc = "poll"
    /\ ~the_app.should_quit
    /\ \E key \in LoopKeys, d \in PollSeconds :
         /\ Typing(the_app, key) =>
                key.ch \in TypedChars(the_app) /\ Len(TypedInto(the_app)) < MaxInput
         /\ \E env \in LoopWorlds :
              /\ AsksWorld(key) \/ Quiet(env)
              /\ \E h \in {handle_key_event(Aged(the_app, d), scanner_mode, key, env)} :
                   /\ the_app' = h.app
                   /\ scanner_mode' = h.mode
                   /\ loop_step' = [NoStep EXCEPT !.kind = "key", !.scans = h.scans,
                                                  !.outcome = h.outcome]
         /\ since_scan' = Later(since_scan, d, scan_interval)
    /\ pc' = "tick"
    /\ UNCHANGED <<scan_interval>>
    /\ UNCHANGED nonLoopVars

\* event::poll timed out
NoEvent ==
    /\ pc = "poll"
    /\ ~the_app.should_quit
    /\ \E d \in PollSeconds :
         /\ the_app' = Aged(the_app, d)
         /\ since_scan' = Later(since_scan, d, scan_interval)
    /\ pc' = "tick"
    /\ loop_step' = NoStep
    /\ UNCHANGED <<scanner_mode, scan_interval>>
    /\ UNCHANGED nonLoopVars

\* the rest of the loop body: the scan when it is due, maybe_clear_status
LoopTick ==
    /\ pc = "tick"
    /\ \E env \in LoopWorlds :
         /\ scan_due(since_scan, scan_interval) \/ Quiet(env)
         /\ IF scan_due(since_scan, scan_interval)
            THEN \E entries_ \in {mode_scan(scanner_mode, env)} :
                   /\ the_app' = maybe_clear_status(update_entries(the_app, entries_))
                   /\ since_scan' = 0
                   /\ loop_step' = [NoStep EXCEPT !.kind = "tick", !.scans = 1,
                                                  !.due = since_scan >= scan_interval,
                                                  !.src = SrcSeen(scanner_mode, env),
                                                  !.list = entries_]
            ELSE /\ the_app' = maybe_clear_status(the_app)
                 /\ UNCHANGED since_scan
                 /\ loop_step' = [NoStep EXCEPT !.kind = "tick",
                                                !.due = since_scan >= scan_interval]
    /\ pc' = "poll"
    /\ UNCHANGED <<scanner_mode, scan_interval>>
    /\ UNCHANGED nonLoopVars

\* if app.should_quit { break }
Quit ==
    /\ pc = "poll"
    /\ the_app.should_quit
    /\ pc' = "exit"
    /\ UNCHANGED <<the_app, scanner_mode, scan_interval, since_scan, loop_step>>
    /\ UNCHANGED nonLoopVars

NextLoop == Startup \/ KeyEvent \/ NoEvent \/ LoopTick \/ Quit

SpecLoop == Init /\ [][NextLoop]_vars

----------------------------------------------------------------------------
(* Claims about the presentation loop                                      *)

\* C19: in the presentation loop a reconciliation pass (scan, then
\* update_entries) is made only by the data-refresh cadence, that is when at
\* least scan_interval has elapsed since the last scan; handling an input
\* event never makes a scan.
C19_ScanOnlyOnCadence ==
    /\ loop_step.kind = "key" => loop_step.scans = 0
    /\ loop_step.kind = "tick" => (loop_step.scans > 0 => loop_step.due)

\* C19, amended: the cadence makes one pass exactly when at least
\* scan_interval has elapsed since the loop's last cadence pass (or the
\* initial scan); an input event makes a pass only when it completes an
\* interactive connect or a disconnect, and then exactly one, against the
\* source switched to; no other input event makes a scan.
C19_ScanOnCadenceOrSourceSwitch ==
    /\ loop_step.kind = "tick" =>
            /\ loop_step.scans \in {0, 1}
            /\ loop_step.scans = 1 <=> loop_step.due
            /\ loop_step.scans = 1 => since_scan = 0
    /\ loop_step.kind = "key" =>
            /\ loop_step.scans \in {0, 1}
            /\ loop_step.scans = 1 <=> loop_step.outcome \in {"connected", "disconnected"}
            /\ loop_step.outcome = "connected" =>
                    /\ scanner_mode.kind = "Remote"
                    /\ is_connected(scanner_mode.session)
                    /\ the_app.remote_host.some
            /\ loop_step.outcome = "disconnected" =>
                    /\ scanner_mode = ModeLocal
                    /\ ~the_app.remote_host.some

\* a key event has completed a connect and the list shown is the remote one
C19_Witness ==
    /\ loop_step.kind = "key"
    /\ loop_step.outcome = "connected"
    /\ loop_step.scans = 1
    /\ the_app.entries # <<>>
    /\ since_scan > 0

\* C20: a failed interactive connect (handle_connect whose parse or connect
\* fails) sets an error status and leaves the scanner mode, app.remote_host
\* and app.entries as they were; the application does not quit.
C20_FailedConnectKeepsSource ==
    [][(loop_step'.kind = "key" /\ loop_step'.outcome = "connect failed") =>
            /\ the_app'.status_message = "Error"
            /\ the_app'.status_age = 0
            /\ scanner_mode' = scanner_mode
            /\ the_app'.remote_host = the_app.remote_host
            /\ the_app'.entries = the_app.entries
            /\ ~the_app'.should_quit
            /\ pc' = "tick"]_vars

\* a connect failed while a connected remote scanner was serving the list
C20_Witness ==
    /\ loop_step.kind = "key"
    /\ loop_step.outcome = "connect failed"
    /\ scanner_mode.kind = "Remote"
    /\ is_connected(scanner_mode.session)
    /\ the_app.remote_host.some
    /\ the_app.entries # <<>>
    /\ the_app.status_message = "Error"

\* the (port, pid) pairs of a list of entries or cache rows
PortPids(rows) == [i \in 1..Len(rows) |-> <<rows[i].port, rows[i].pid>>]

\* C21: a data source failing during a scan tick neither ends the loop nor
\* surfaces as an error of the tick: when the local TCP enumeration fails the
\* list returned holds the UDP entries and only them, when the remote scan
\* fails (no session, or a command that cannot be run) the list is empty; the
\* loop goes on to its next poll and ends only when quitting was asked for.
C21_TickSurvivesSourceFailure ==
    (loop_step.kind = "tick" /\ loop_step.scans = 1) =>
        /\ pc = "poll" \/ (pc = "exit" /\ the_app.should_quit)
        /\ (scanner_mode.kind = "Local" /\ ~loop_step.src.tcp_ok) =>
                /\ \A i \in 1..Len(loop_step.list) : loop_step.list[i].protocol = "Udp"
                /\ PortPids(loop_step.list) = PortPids(loop_step.src.udp)
        /\ (scanner_mode.kind = "Remote" /\ ~loop_step.src.remote_ok) =>
                /\ loop_step.list = <<>>
                /\ the_app.entries = <<>>
        /\ (scanner_mode.kind = "Remote" /\ ~is_connected(scanner_mode.session)) =>
                /\ loop_step.list = <<>>
                /\ the_app.entries = <<>>

\* a tick scanned the local system while its TCP enumeration failed and
\* returned the cached UDP socket
C21_Witness ==
    /\ loop_step.kind = "tick"
    /\ loop_step.scans = 1
    /\ scanner_mode.kind = "Local"
    /\ ~loop_step.src.tcp_ok
    /\ Len(loop_step.list) = 1
    /\ the_app.entries = loop_step.list
    /\ pc = "poll"

----------------------------------------------------------------------------
(* RemoteConfig::parse on its own                                          *)

MaxHostStr == 5     \* the host strings have at most this many characters

\* every text over a letter, the two separators, a blank and a digit
ParseTexts == SeqsUpTo({"a", "@", ":", " ", "2"}, MaxHostStr)

\* USER and USERNAME of the process environment: unset, or set (USER possibly
\* to the empty text)
ParseEnvs ==
    [USER : {None, Some(<<"u">>), Some(<<>>)}, USERNAME : {None, Some(<<"w">>)}]

\* the environment of the calls that never read it
PlainEnv == [USER |-> Some(<<"u">>), USERNAME |-> None]

InitParse ==
    /\ InitProgram
    /\ \E text \in ParseTexts, env \in ParseEnvs :
         /\ Contains(text, <<"@">>) => env = PlainEnv
         /\ call = [fn |-> "parse", host_str |-> text, env |-> env, done |-> FALSE,
                    result |-> RErr("pending")]

\* RemoteConfig::parse(host_str) returns
ParseReturn ==
    /\ call.fn = "parse"
    /\ ~call.done
    /\ call' = [call EXCEPT !.done = TRUE,
                            !.result = RemoteConfig_parse(call.host_str,
                                                          current_user(call.env))]
    /\ UNCHANGED nonCallVars

NextParse == ParseReturn

SpecParse == InitParse /\ [][NextParse]_vars

\* a call of RemoteConfig::parse that has returned
Parsed == call.fn = "parse" /\ call.done

\* whether the text is a run of one or more digits naming a 16-bit number
IsPort(t) ==
    /\ Len(t) \in 1..5
    /\ \A i \in 1..Len(t) : t[i] \in {"0", "1", "2", "3", "4", "5", "6", "7", "8", "9"}
    /\ DecValue(t) <= 65535

\* C22: on a string user@host:port, with user and host not empty and port a
\* 16-bit number, RemoteConfig::parse returns exactly username user, host
\* host, port port and no key path; with ":port" left out the port is 22 and
\* the other fields are the same.  The string is read as the claim writes it:
\* user ends at the first '@'; the port, when there is one, follows the last
\* ':'; without a port there is no ':' in the string.
C22_ParseUserHostPort ==
    Parsed =>
        LET t == call.host_str
        IN  /\ \A i, j \in 1..Len(t) :
                 LET user == SubSeq(t, 1, i - 1)
                     host == SubSeq(t, i + 1, j - 1)
                     port == SubSeq(t, j + 1, Len(t))
                 IN  ( /\ t[i] = "@" /\ t[j] = ":" /\ i < j
                       /\ user # <<>> /\ host # <<>> /\ IsPort(port)
                       /\ ~Contains(user, <<"@">>) )
                     => call.result = ROk([username |-> user, host |-> host,
                                           port |-> DecValue(port), key_path |-> FALSE])
            /\ \A i \in 1..Len(t) :
                 LET user == SubSeq(t, 1, i - 1)
                     host == SubSeq(t, i + 1, Len(t))
                 IN  ( /\ t[i] = "@" /\ user # <<>> /\ host # <<>>
                       /\ ~Contains(user, <<"@">>) /\ ~Contains(t, <<":">>) )
                     => call.result = ROk([username |-> user, host |-> host,
                                           port |-> 22, key_path |-> FALSE])

\* "a@a:2" was parsed
C22_Witness ==
    /\ Parsed
    /\ call.host_str = <<"a", "@", "a", ":", "2">>
    /\ call.result.ok
    /\ call.result.val.port = 2

\* C23: RemoteConfig::parse never returns a configuration whose host is
\* empty: the empty string, a string of blanks, "user@", ":22" and "user@:22"
\* are each answered by a parse error and no configuration.
C23_NoEmptyHost ==
    Parsed =>
        /\ call.result.ok => call.result.val.host # <<>>
        /\ call.host_str \in { <<>>, <<" ">>, <<" ", " ">>, <<"a", "@">>,
                               <<":", "2", "2">>, <<"a", "@", ":", "2", "2">> }
                => /\ ~call.result.ok
                   /\ call.result.err = "Host cannot be empty"

\* "a@:22" was refused
C23_Witness ==
    /\ Parsed
    /\ call.host_str = <<"a", "@", ":", "2", "2">>
    /\ ~call.result.ok

\* C24: when the host string has no user before the host (no '@' at all, or
\* nothing before the '@'), RemoteConfig::parse sets username to the current
\* user of the operating system (USER, else USERNAME), or to "root" when
\* neither is set; the username returned is never the empty text taken from
\* the input.
C24_MissingUserIsCurrentUser ==
    (Parsed /\ call.result.ok) =>
        LET t == call.host_str
            os_user == IF call.env.USER.some THEN call.env.USER.val
                       ELSE IF call.env.USERNAME.some THEN call.env.USERNAME.val
                       ELSE <<"r", "o", "o", "t">>
        IN  (~Contains(t, <<"@">>) \/ t[1] = "@") =>
                call.result.val.username = os_user

----------------------------------------------------------------------------
(* format_memory on its own                                                *)

MaxSmallBytes == 1300   \* every byte count up to this one is formatted
Spread == 3             \* and this many on each side of the larger landmarks

\* the byte counts formatted: the small ones, the neighbourhoods of 2^20,
\* 2^30, 2^31, 2^53 and 2^64 - 1, and the quotients ending in .25 and .75
FormatInputs ==
    {U64(0, 0, b) : b \in 0..MaxSmallBytes}
        \cup {U64(0, 0, 1792), U64(0, 0, MB + (MB \div 4)), U64(0, 1, GB \div 4),
              U64(0, 1, 3 * (GB \div 4)), U64(0, 3, GB \div 4)}
        \cup UNION {{U64(0, 0, MB - d), U64(0, 0, MB + d), U64(0, 0, GB - d),
                     U64(0, 1, d - 1), U64(0, 1, GB - d), U64(0, 2, d - 1),
                     U64(0, 8388608, d - 1), U64(15, GB - 1, GB - d)}
                        : d \in 1..Spread}

InitFormat ==
    /\ InitProgram
    /\ \E v \in FormatInputs :
         call = [fn |-> "format_memory", bytes |-> v, done |-> FALSE, result |-> <<>>]

\* format_memory(bytes) returns
FormatReturn ==
    /\ call.fn = "format_memory"
    /\ ~call.done
    /\ call' = [call EXCEPT !.done = TRUE, !.result = format_memory_u64(call.bytes)]
    /\ UNCHANGED nonCallVars

NextFormat == FormatReturn

SpecFormat == InitFormat /\ [][NextFormat]_vars

\* a call of format_memory that has returned
Formatted == call.fn = "format_memory" /\ call.done

\* the text ends with the given text
EndsIn(t, tail) ==
    Len(t) >= Len(tail) /\ SubSeq(t, Len(t) - Len(tail) + 1, Len(t)) = tail

\* one or more digits, a point, one digit
OneDecimalShape(t) ==
    /\ Len(t) >= 3
    /\ t[Len(t) - 1] = "."
    /\ \A i \in (1..Len(t)) \ {Len(t) - 1} : IsDigit(t[i])

\* C25: format_memory picks the largest unit that is not above the byte
\* count: below 1024 the text is the count followed by " B", with no decimal;
\* from 1024 up to 1024^2 it ends in " KB", from 1024^2 up to 1024^3 in " MB",
\* and from 1024^3 up to the largest u64 in " GB", each after a number with
\* one decimal; the call returns for every count.
C25_LargestUnit ==
    Formatted =>
        LET v == call.bytes
            t == call.result
            unit == IF v.l2 > 0 \/ v.l1 > 0 THEN <<" ", "G", "B">>
                    ELSE IF v.l0 >= 1024 * 1024 THEN <<" ", "M", "B">>
                    ELSE IF v.l0 >= 1024 THEN <<" ", "K", "B">>
                    ELSE <<" ", "B">>
        IN  /\ EndsIn(t, unit)
            /\ IF Len(unit) = 2 THEN t = Dec(v.l0) \o unit
               ELSE OneDecimalShape(SubSeq(t, 1, Len(t) - 3))

\* the largest u64, 2^64 - 1, came out in GB
C25_Witness ==
    /\ Formatted
    /\ call.bytes = U64(15, GB - 1, GB - 1)
    /\ call.result = <<"1", "7", "1", "7", "9", "8", "6", "9", "1", "8", "4", ".", "0",
                       " ", "G", "B">>

\* the quotient bytes / unit in tenths, a half going up: the whole part of
\* 10 * bytes / unit + 1/2, computed in pieces below 2^31
HalfUpTenths(bytes, unit) ==
    LET low == unit \div 1024
        r == bytes % unit
        a == r \div low
        b == r % low
    IN  (10 * (bytes \div unit)) + (((10 * a) + 512 + ((10 * b) \div low)) \div 1024)

\* C26: for KB, MB and GB the number shown is bytes / unit with exactly one
\* decimal digit, rounded half-up at that digit: a quotient exactly halfway
\* between two one-decimal values goes up (1280 bytes, 1.25 KB, is shown as
\* "1.3 KB").  Stated for the byte counts below 2^31.
C26_HalfUp ==
    (Formatted /\ call.bytes.l2 = 0 /\ call.bytes.l1 < 2) =>
        LET n == (call.bytes.l1 * GB) + call.bytes.l0
            shown(unit, suffix) ==
                LET tenths == HalfUpTenths(n, unit)
                IN  Dec(tenths \div 10) \o <<".">> \o Dec(tenths % 10) \o suffix
        IN  /\ n >= GB => call.result = shown(GB, <<" ", "G", "B">>)
            /\ (n >= MB /\ n < GB) => call.result = shown(MB, <<" ", "M", "B">>)
            /\ (n >= KB /\ n < MB) => call.result = shown(KB, <<" ", "K", "B">>)

----------------------------------------------------------------------------
(* Two passes of Scanner::scan over one unchanged system                   *)

\* the process directories without a process or with all of them
TwiceProcessMaps == {pm \in ProcessMaps : DOMAIN pm \in {{}, Pids}}

\* a TCP enumeration that fails or returns at most one listener
TwiceTcpResults == {tcp \in TcpResults : tcp.ok => Len(tcp.val) <= 1}

\* what the UDP cache holds when the first pass starts: nothing, or the row it
\* was filled with on an earlier state of the system
TwiceCaches == {<<>>, <<UdpCacheEntry(53, 1, <<"a">>)>>}

\* the seconds between the two passes: inside the cache duration, or all of it
TwiceGaps == {1, UDP_CACHE_DURATION}

\* a scanner just made (empty cache, already stale) or one whose cache was
\* filled two seconds ago, in front of a system that answers every pass alike
InitTwice ==
    /\ InitRemote /\ InitKill /\ InitLoop
    /\ now = UDP_CACHE_DURATION
    /\ entries = <<>>
    /\ process_map = <<>>
    /\ tcp_in = Err
    /\ udp_source = "idle"
    /\ due = FALSE
    /\ \/ /\ udp_cache = <<>>
          /\ udp_cache_time = now - UDP_CACHE_DURATION
          /\ last_raw_done = -1
       \/ /\ udp_cache \in TwiceCaches
          /\ udp_cache_time = now - 2
          /\ last_raw_done = now - 2
    /\ \E pm \in TwiceProcessMaps, tcp \in TwiceTcpResults, raw \in RawUdpOutcomes :
         call = [fn |-> "scan_twice", pm |-> pm, tcp |-> tcp, raw |-> raw,
                 cache0 |-> udp_cache, waited |-> FALSE, lists |-> <<>>,
                 refreshed |-> <<>>]

TwicePassCachedWithoutUdp ==
    /\ call.fn = "scan_twice"
    /\ Len(call.lists) < 2
    /\ Len(call.lists) = 1 => call.waited
    /\ ~cache_expired(now - udp_cache_time)
    /\ entries' = scan(call.pm, call.tcp, <<>>)
    /\ process_map' = call.pm
    /\ tcp_in' = call.tcp
    /\ udp_source' = "cache"
    /\ due' = RefreshDue
    /\ call' = [call EXCEPT !.lists = Append(@, entries'),
                            !.refreshed = Append(@, FALSE)]
    /\ UNCHANGED <<now, udp_cache, udp_cache_time, last_raw_done>>
    /\ UNCHANGED <<remoteVars, killVars, loopVars>>

\* one pass of Scanner::scan over the system that found the UDP cache stale
TwicePassRefresh ==
    /\ call.fn = "scan_twice"
    /\ Len(call.lists) < 2
    /\ Len(call.lists) = 1 => call.waited
    /\ cache_expired(now - udp_cache_time)
    /\ \E d \in 0..MaxRawDelay :
         LET r == refresh_udp_cache(call.raw, now + d)
         IN  /\ now' = now + d
             /\ udp_cache' = r.udp_cache
             /\ udp_cache_time' = r.udp_cache_time
             /\ last_raw_done' = now + d
             /\ entries' = scan(call.pm, call.tcp, r.udp_cache)
    /\ process_map' = call.pm
    /\ tcp_in' = call.tcp
    /\ udp_source' = call.raw.source
    /\ due' = RefreshDue
    /\ call' = [call EXCEPT !.lists = Append(@, entries'),
                            !.refreshed = Append(@, TRUE)]
    /\ UNCHANGED <<remoteVars, killVars, loopVars>>

\* one pass of Scanner::scan over the system that served the UDP rows from
\* the cache
TwicePassCached ==
    /\ call.fn = "scan_twice"
    /\ Len(call.lists) < 2
    /\ Len(call.lists) = 1 => call.waited
    /\ ~cache_expired(now - udp_cache_time)
    /\ entries' = scan(call.pm, call.tcp, udp_cache)
    /\ process_map' = call.pm
    /\ tcp_in' = call.tcp
    /\ udp_source' = "cache"
    /\ due' = RefreshDue
    /\ call' = [call EXCEPT !.lists = Append(@, entries'),
                            !.refreshed = Append(@, FALSE)]
    /\ UNCHANGED <<now, udp_cache, udp_cache_time, last_raw_done>>
    /\ UNCHANGED <<remoteVars, killVars, loopVars>>

\* time passes between the first pass and the second
TwiceWait ==
    /\ call.fn = "scan_twice"
    /\ Len(call.lists) = 1
    /\ ~call.waited
    /\ \E gap \in TwiceGaps : now' = now + gap
    /\ call' = [call EXCEPT !.waited = TRUE]
    /\ UNCHANGED <<udp_cache, udp_cache_time, last_raw_done, entries, process_map,
                   tcp_in, udp_source, due>>
    /\ UNCHANGED <<remoteVars, killVars, loopVars>>

NextTwice == TwicePassRefresh \/ TwicePassCached \/ TwiceWait

SpecTwice == InitTwice /\ [][NextTwice]_vars

\* the (port, protocol, pid) triples of a list of entries
Triples(list) ==
    [i \in 1..Len(list) |-> <<list[i].port, list[i].protocol, list[i].pid>>]

\* the two sequences hold the same elements the same number of times
SameMultiset(s, t) ==
    \A x \in {s[i] : i \in 1..Len(s)} \cup {t[i] : i \in 1..Len(t)} :
        Cardinality({i \in 1..Len(s) : s[i] = x})
            = Cardinality({i \in 1..Len(t) : t[i] = x})

BothPassed == call.fn = "scan_twice" /\ Len(call.lists) = 2

\* C27 as stated: two consecutive passes over an unchanged system (the same
\* sockets, processes and command output at both) return lists with the same
\* multiset of (port, protocol, pid), whether or not the UDP cache is
\* refreshed between them.
C27_SameTriplesAlways ==
    BothPassed => SameMultiset(Triples(call.lists[1]), Triples(call.lists[2]))

\* C27, amended: the two lists hold the same multiset of (port, protocol, pid)
\* whenever the first pass refreshed the UDP cache, or the second pass did not
\* refresh it, or the cache the first pass read already held the rows the raw
\* enumeration returns on this system.
C27_SameTriplesUnlessStaleThenRefreshed ==
    (/\ BothPassed
     /\ \/ call.refreshed[1]
        \/ ~call.refreshed[2]
        \/ call.cache0 = call.raw.rows)
        => SameMultiset(Triples(call.lists[1]), Triples(call.lists[2]))

\* a first pass refreshed the cache with a UDP row and the second pass, a
\* second later, served that row from the cache
C27_Witness ==
    /\ BothPassed
    /\ call.refreshed = <<TRUE, FALSE>>
    /\ Len(call.raw.rows) > 0
    /\ call.tcp.ok
    /\ Len(call.lists[2]) = Len(call.raw.rows) + Len(call.tcp.val)

----------------------------------------------------------------------------
(* App under its list updates, its selection methods and the keys of the   *)
(* list and of the filter                                                  *)

MaxShown == 11      \* the lists given to update_entries have up to this many rows
MaxFilter == 1      \* characters typed into the filter

\* n rows on the ports 1..n, as a scan returns them
ShownList(n) ==
    [i \in 1..n |-> PortEntry(i, "Tcp", 7, <<"a">>, 0, 0, format_memory(0), TRUE, FALSE)]

ShownLists == {ShownList(n) : n \in 0..MaxShown}

\* the keys that move the selection and the keys of the filter
AppKeys ==
    {Key(c) : c \in {"PageUp", "PageDown", "Home", "End", "Up", "Down", "Enter",
                     "Esc", "Backspace"}}
        \cup {Char("/"), Char("1")}

NoKey == Key("none")

\* the last call made on the App, with the App it was made on
AppCall(fn, before, list, key) ==
    [fn |-> fn, before |-> before, list |-> list, key |-> key]

\* App::new
InitApp == InitProgram /\ call = AppCall("new", AppNew, <<>>, NoKey)

\* app.update_entries(entries)
AppUpdateEntries ==
    /\ \E list \in ShownLists :
         /\ the_app' = update_entries(the_app, list)
         /\ call' = AppCall("update_entries", the_app, list, NoKey)
    /\ UNCHANGED <<scannerVars, remoteVars, killVars>>
    /\ UNCHANGED <<scanner_mode, scan_interval, since_scan, pc, loop_step>>

\* app.select_next()
AppSelectNext ==
    /\ the_app' = select_next(the_app)
    /\ call' = AppCall("select_next", the_app, <<>>, NoKey)
    /\ UNCHANGED <<scannerVars, remoteVars, killVars>>
    /\ UNCHANGED <<scanner_mode, scan_interval, since_scan, pc, loop_step>>

\* app.select_previous()
AppSelectPrevious ==
    /\ the_app' = select_previous(the_app)
    /\ call' = AppCall("select_previous", the_app, <<>>, NoKey)
    /\ UNCHANGED <<scannerVars, remoteVars, killVars>>
    /\ UNCHANGED <<scanner_mode, scan_interval, since_scan, pc, loop_step>>

\* handle_key_event on a key of the list or of the filter; Enter is pressed in
\* the filter only
AppKey ==
    /\ \E key \in AppKeys :
         /\ key.code = "Enter" => the_app.filter_mode
         /\ (the_app.filter_mode /\ key.code = "Char") =>
                key.ch = "1" /\ Len(the_app.filter) < MaxFilter
         /\ the_app' = handle_key_event(the_app, scanner_mode, key, NoEnv).app
         /\ call' = AppCall("key", the_app, <<>>, key)
    /\ UNCHANGED <<scannerVars, remoteVars, killVars>>
    /\ UNCHANGED <<scanner_mode, scan_interval, since_scan, pc, loop_step>>

NextApp == AppUpdateEntries \/ AppSelectNext \/ AppSelectPrevious \/ AppKey

SpecApp == InitApp /\ [][NextApp]_vars

\* the selection of the App moved to s and nothing else of it changed
OnlySelection(before, after, s) == after = [before EXCEPT !.selected_index = s]

\* C28: with n > 0 entries and the selection at i, select_next moves it to
\* (i + 1) mod n and select_previous to (i - 1) mod n; each undoes the other,
\* and n calls of one of them bring the selection back to i; PageDown and
\* PageUp are ten such steps, (i + 10) mod n and (i - 10) mod n; with no
\* entries all four leave the selection where it was.
C28_SelectionWraps ==
    LET b == call.before
        n == Len(b.entries)
        i == b.selected_index
        listKey == call.fn = "key" /\ ~b.show_help /\ ~b.filter_mode /\ ~b.connect_mode
        next == call.fn = "select_next" \/ (listKey /\ call.key.code = "Down")
        previous == call.fn = "select_previous" \/ (listKey /\ call.key.code = "Up")
        pageDown == listKey /\ call.key.code = "PageDown"
        pageUp == listKey /\ call.key.code = "PageUp"
    IN  /\ (n > 0 /\ next) =>
              /\ OnlySelection(b, the_app, (i + 1) % n)
              /\ select_previous(the_app) = b
        /\ (n > 0 /\ previous) =>
              /\ OnlySelection(b, the_app, (i + n - 1) % n)
              /\ select_next(the_app) = b
        /\ (n > 0 /\ pageDown) => OnlySelection(b, the_app, (i + 10) % n)
        /\ (n > 0 /\ pageUp) => OnlySelection(b, the_app, (i + (10 * n) - 10) % n)
        /\ (n = 0 /\ (next \/ previous \/ pageDown \/ pageUp)) => the_app = b
        /\ Len(the_app.entries) > 0 =>
              /\ Times(Len(the_app.entries), "next", the_app) = the_app
              /\ Times(Len(the_app.entries), "previous", the_app) = the_app

\* PageDown on the last of three entries went round to the first
C28_Witness ==
    /\ call.fn = "key"
    /\ call.key.code = "PageDown"
    /\ ~call.before.filter_mode
    /\ Len(call.before.entries) = 3
    /\ call.before.selected_index = 2
    /\ the_app.selected_index = 0

----------------------------------------------------------------------------
(* handle_key_event in every mode of the App                               *)

MaxTyped == 1       \* characters typed into the filter or the connect dialogue
MaxKeys == 5        \* keys pressed in one run

\* the keys pressed in every mode: those that quit, open the help, move the
\* selection, kill, open the filter or the connect dialogue, disconnect, and
\* the keys of the dialogues
ModalKeys ==
    {Key(c) : c \in {"Enter", "Esc", "Backspace", "Tab", "Down", "PageDown", "End",
                     "F1"}}
        \cup {Char(c) : c \in {"q", "?", "/", "c", "j", "d"}}
        \cup {Ctrl("c"), Ctrl("K")}

\* the last key handled, with the App and the scanner it was handled on
KeyCall(before, mode, key, scans, outcome, n) ==
    [fn |-> "key", before |-> before, mode |-> mode, key |-> key, scans |-> scans,
     outcome |-> outcome, n |-> n]

\* the number of keys pressed so far
KeysPressed == IF call.fn = "key" THEN call.n ELSE 0

\* run() up to the loop on the local system, with two sockets found
KeysStart ==
    /\ pc = "start"
    /\ pc' = "poll"
    /\ \E env \in LoopWorlds :
         /\ Len(env.local_list) = 2
         /\ the_app' = update_entries(AppNew, mode_scan(ModeLocal, env))
    /\ scanner_mode' = ModeLocal
    /\ UNCHANGED <<scan_interval, since_scan, loop_step, call>>
    /\ UNCHANGED <<scannerVars, remoteVars, killVars>>

\* handle_key_event on one key
KeyPress ==
    /\ pc = "poll"
    /\ ~the_app.should_quit
    /\ KeysPressed < MaxKeys
    /\ \E key \in ModalKeys :
         /\ Typing(the_app, key) => Len(TypedInto(the_app)) < MaxTyped
         /\ \E env \in LoopWorlds :
              /\ AsksWorld(key) \/ Quiet(env)
              /\ \E h \in {handle_key_event(the_app, scanner_mode, key, env)} :
                   /\ the_app' = h.app
                   /\ scanner_mode' = h.mode
                   /\ call' = KeyCall(the_app, scanner_mode, key, h.scans, h.outcome,
                                      KeysPressed + 1)
    /\ UNCHANGED <<scan_interval, since_scan, pc, loop_step>>
    /\ UNCHANGED <<scannerVars, remoteVars, killVars>>

NextKeys == KeysStart \/ KeyPress

SpecKeys == Init /\ [][NextKeys]_vars

KeyHandled == call.fn = "key"

\* C30: key handling is modal, help before filter before connect before the
\* normal keys.  While the help is shown a key closes the help and does
\* nothing else.  In filter mode a key changes the filter text or leaves the
\* mode: it never moves the selection, quits, kills, opens the help or enters
\* connect mode.  In connect mode a key is given to the dialogue: it never
\* quits, kills, opens the help or enters filter mode, and the selection and
\* the list stay as they are unless the dialogue connects.  filter_mode and
\* connect_mode are never both true.
C30_KeysAreModal ==
    /\ ~(the_app.filter_mode /\ the_app.connect_mode)
    /\ KeyHandled =>
         LET b == call.before
             quiet == /\ the_app.selected_index = b.selected_index
                      /\ the_app.entries = b.entries
                      /\ scanner_mode = call.mode
                      /\ call.scans = 0
         IN  /\ b.show_help =>
                   /\ the_app = [b EXCEPT !.show_help = FALSE]
                   /\ quiet
                   /\ call.outcome = "-"
             /\ (~b.show_help /\ b.filter_mode) =>
                   /\ quiet
                   /\ call.outcome = "-"
                   /\ ~the_app.should_quit
                   /\ ~the_app.show_help
                   /\ ~the_app.connect_mode
                   /\ the_app.connect_input = b.connect_input
                   /\ the_app.remote_host = b.remote_host
             /\ (~b.show_help /\ ~b.filter_mode /\ b.connect_mode) =>
                   /\ call.outcome # "connected" => quiet
                   /\ call.outcome \notin {"kill", "disconnected"}
                   /\ ~the_app.should_quit
                   /\ ~the_app.show_help
                   /\ ~the_app.filter_mode
                   /\ the_app.filter = b.filter

\* 'q' pressed in filter mode went into the filter and did not quit
C30_Witness ==
    /\ KeyHandled
    /\ call.before.filter_mode
    /\ call.key = Char("q")
    /\ the_app.filter = <<"q">>
    /\ the_app.filter_mode
    /\ ~the_app.should_quit

----------------------------------------------------------------------------
(* The remote parsers and the order of the commands, under SpecRemote      *)

\* a line in the six columns `ss -tlnp` and `ss -ulnp` print: State, Recv-Q,
\* Send-Q, Local Address:Port, Peer Address:Port, Process
SsSixColumns(line) ==
    LET parts == SplitWhitespace(line)
    IN  /\ Len(parts) = 6
        /\ extract_port(parts[4]).some
        /\ HasPidPattern(parts[6])

\* C31: on the Linux path a line in the column layout of ss -tlnp / ss -ulnp
\* yields an entry whose port is the port of the local-address column (the
\* fourth) and whose pid and name come from the Process column.
C31_SsLocalColumn ==
    (ScanAnswered /\ ScanParser = "ss") =>
        /\ \A i \in 1..Len(TcpBatch) :
             SsSixColumns(TcpBatch[i]) =>
                LET parts == SplitWhitespace(TcpBatch[i])
                IN  \E k \in 1..Len(remote_result.val) :
                       remote_result.val[k] =
                           RemoteEntry(extract_port(parts[4]).val, "Tcp",
                                       parse_ss_users(parts[6])[1],
                                       parse_ss_users(parts[6])[2])
        /\ \A i \in 1..Len(UdpBatch) :
             SsSixColumns(UdpBatch[i]) =>
                LET parts == SplitWhitespace(UdpBatch[i])
                IN  \E k \in 1..Len(remote_result.val) :
                       remote_result.val[k] =
                           RemoteEntry(extract_port(parts[4]).val, "Udp",
                                       parse_ss_users(parts[6])[1],
                                       parse_ss_users(parts[6])[2])

\* the port of the first whitespace-separated token that reads as
\* address:port, if there is one
FirstPort(line) ==
    LET parts == SplitWhitespace(line)
        hits == {i \in 1..Len(parts) : extract_port(parts[i]).some}
    IN  IF hits = {} THEN None
        ELSE extract_port(parts[CHOOSE i \in hits : \A j \in hits : i <= j])

MentionsListen(line) == Contains(line, <<"L", "I", "S", "T", "E", "N">>)

\* C32: the generic fallback produces an entry only for lines that mention a
\* listening state; each entry has pid 0, process_name "unknown" and the port
\* of the first token of its line that reads as address:port; lines that do
\* not mention a listening state produce no entry.
C32_GenericOnlyListening ==
    (ScanAnswered /\ ScanParser = "netstat") =>
        /\ Len(remote_result.val)
                <= Cardinality({i \in 1..Len(TcpBatch) : MentionsListen(TcpBatch[i])})
        /\ \A k \in 1..Len(remote_result.val) :
              \E i \in 1..Len(TcpBatch) :
                 /\ MentionsListen(TcpBatch[i])
                 /\ FirstPort(TcpBatch[i]).some
                 /\ remote_result.val[k].port = FirstPort(TcpBatch[i]).val
                 /\ remote_result.val[k].pid = 0
                 /\ remote_result.val[k].process_name = Unknown

\* the socket-listing commands of the path the detection output selects
ListingCommands ==
    IF ScanOs = <<"L", "i", "n", "u", "x">> THEN <<CmdSsTcp, CmdSsUdp>>
    ELSE IF ScanOs = <<"D", "a", "r", "w", "i", "n">> THEN <<CmdLsofTcp, CmdLsofUdp>>
    ELSE <<CmdNetstat>>

IsPrefix(s, t) == Len(s) <= Len(t) /\ s = SubSeq(t, 1, Len(s))

\* C33: a remote scan on a connected scanner executes the OS-detection
\* command first and only then the socket-listing commands, which are those
\* of the path the trimmed detection output selects: "Linux" the ss commands,
\* "Darwin" the lsof commands, anything else (nothing included) the one
\* netstat command.  If the detection fails no listing command is executed
\* and the scan returns an error.
C33_DetectThenList ==
    (remote_op.op = "scan" /\ remote_op.was_connected) =>
        /\ IsPrefix(exec_log, <<CmdUname>> \o ListingCommands)
        /\ ~remote_env.uname.ok =>
              /\ ~remote_result.ok
              /\ IsPrefix(exec_log, <<CmdUname>>)
        /\ ScanAnswered =>
              /\ remote_result.ok
              /\ exec_log = <<CmdUname>> \o ListingCommands

\* a scan detected Linux and then ran the two ss commands
C33_Witness ==
    /\ ScanAnswered
    /\ remote_env.uname.text = <<"L", "i", "n", "u", "x", "\n">>
    /\ exec_log = <<CmdUname, CmdSsTcp, CmdSsUdp>>
    /\ remote_result.ok

----------------------------------------------------------------------------
(* main.rs: the describe and kill commands                                 *)

\* what a command leaves behind: its result, how many times it scanned, and
\* the kills it asked for
Ran(result, scans, kills) == [result |-> result, scans |-> scans, kills |-> kills]

\* std::process::exit(1)
Exit1 == [ok |-> FALSE, val |-> <<>>, err |-> "exit(1)"]

\* the filter of run_kill
KillMatches(list, pid, port) ==
    SelectSeq(list, LAMBDA e : IF pid.some THEN e.pid = pid.val
                               ELSE IF port.some THEN e.port = port.val
                               ELSE FALSE)

run_kill_first_of_many(pid, port, remote, force, env) ==
    LET matching == KillMatches(env.scan.val, pid, port)
    IN  IF ~pid.some /\ ~port.some
        THEN Ran(RErr("Either --pid or --port must be specified"), 0, <<>>)
        ELSE IF pid.some /\ port.some
        THEN Ran(RErr("Cannot specify both --pid and --port. Please use only one."),
                 0, <<>>)
        ELSE IF ~env.scan.ok THEN Ran(env.scan, 1, <<>>)
        ELSE IF matching = <<>>
        THEN Ran(RErr(IF pid.some THEN "No process found with PID"
                      ELSE "No process found on port"), 1, <<>>)
        ELSE IF remote /\ ~env.connect_ok THEN Ran(RErr("Failed to connect"), 1, <<>>)
        ELSE Ran(IF env.kill_ok THEN ROk(<<>>) ELSE RErr("kill failed"), 1,
                 <<[pid |-> matching[1].pid, force |-> force]>>)

\* run_kill; env.scan is what scan_ports returns, env.connect_ok whether the
\* second connect() for a remote kill succeeds, env.kill_ok whether the kill
\* that is asked for succeeds
run_kill(pid, port, remote, force, env) ==
    LET matching == KillMatches(env.scan.val, pid, port)
    IN  IF ~pid.some /\ ~port.some
        THEN Ran(RErr("Either --pid or --port must be specified"), 0, <<>>)
        ELSE IF pid.some /\ port.some
        THEN Ran(RErr("Cannot specify both --pid and --port. Please use only one."),
                 0, <<>>)
        ELSE IF ~env.scan.ok THEN Ran(env.scan, 1, <<>>)
        ELSE IF matching = <<>>
        THEN Ran(RErr(IF pid.some THEN "No process found with PID"
                      ELSE "No process found on port"), 1, <<>>)
        ELSE IF Len(matching) > 1 THEN Ran(Exit1, 1, <<>>)
        ELSE IF remote /\ ~env.connect_ok THEN Ran(RErr("Failed to connect"), 1, <<>>)
        ELSE Ran(IF env.kill_ok THEN ROk(<<>>) ELSE RErr("kill failed"), 1,
                 <<[pid |-> matching[1].pid, force |-> force]>>)

\* run_describe: the entries it prints, or the error
run_describe(target, env) ==
    LET port == ParseU16(target)
        pid == ParseU32(target)
        matching_entries ==
            SelectSeq(env.scan.val,
                      LAMBDA e : IF port.some THEN e.port = port.val
                                 ELSE IF pid.some THEN e.pid = pid.val
                                 ELSE \/ Contains(e.process_name, target)
                                      \/ Dec(e.port) = target
                                      \/ Dec(e.pid) = target)
    IN  IF ~env.scan.ok THEN Ran(env.scan, 1, <<>>)
        ELSE IF matching_entries = <<>>
        THEN Ran(RErr("No process found matching"), 1, <<>>)
        ELSE Ran(ROk(matching_entries), 1, <<>>)

MaxCliEntries == 2      \* entries in the list scan_ports returns

\* a process with a TCP and a UDP socket on one port, one whose port is the
\* pid of the first, and one whose pid is beyond the 16-bit numbers
CliEntries ==
    { RemoteEntry(80, "Tcp", 7, <<"s">>), RemoteEntry(80, "Udp", 7, <<"s">>),
      RemoteEntry(7, "Tcp", 9, <<"n">>), RemoteEntry(22, "Tcp", 70000, <<"d">>) }

CliScans ==
    {RErr("Failed to connect")} \cup {ROk(l) : l \in SeqsUpTo(CliEntries, MaxCliEntries)}

CliEnvs ==
    {[scan |-> s, connect_ok |-> c, kill_ok |-> k] :
        s \in CliScans, c \in BOOLEAN, k \in BOOLEAN}

CliPids == {None, Some(7), Some(9), Some(5)}
CliPorts == {None, Some(80), Some(7), Some(1)}
CliTargets == {<<"7">>, <<"8", "0">>, <<"9">>, <<"7", "0", "0", "0", "0">>, <<"s">>}

NoRan == Ran(ROk(<<>>), 0, <<>>)

InitCli ==
    /\ InitProgram
    /\ \/ \E pid \in CliPids, port \in CliPorts, remote \in BOOLEAN, force \in BOOLEAN,
             env \in CliEnvs :
            /\ ~remote => env.connect_ok
            /\ call = [fn |-> "run_kill", pid |-> pid, port |-> port, remote |-> remote,
                       force |-> force, target |-> <<>>, env |-> env, done |-> FALSE,
                       ran |-> NoRan]
       \/ \E target \in CliTargets, env \in CliEnvs :
            /\ env.connect_ok /\ env.kill_ok
            /\ call = [fn |-> "run_describe", pid |-> None, port |-> None,
                       remote |-> FALSE, force |-> FALSE, target |-> target,
                       env |-> env, done |-> FALSE, ran |-> NoRan]

\* run_kill returns
RunKillReturn ==
    /\ call.fn = "run_kill"
    /\ ~call.done
    /\ call' = [call EXCEPT !.done = TRUE,
                            !.ran = run_kill(call.pid, call.port, call.remote,
                                             call.force, call.env)]
    /\ UNCHANGED nonCallVars

\* run_describe returns
RunDescribeReturn ==
    /\ call.fn = "run_describe"
    /\ ~call.done
    /\ call' = [call EXCEPT !.done = TRUE, !.ran = run_describe(call.target, call.env)]
    /\ UNCHANGED nonCallVars

NextCli == RunKillReturn \/ RunDescribeReturn

SpecCli == InitCli /\ [][NextCli]_vars

\* the scanned entries the selector of a kill matches: those of the pid when
\* --pid is given, those on the port when --port is given
Selected ==
    {i \in 1..Len(call.env.scan.val) :
        IF call.pid.some THEN call.env.scan.val[i].pid = call.pid.val
        ELSE call.env.scan.val[i].port = call.port.val}

\* C34: run_kill asks for a kill only when exactly one scanned entry matches
\* the selector, and then once, for the pid of that entry; with neither or
\* both of --pid and --port it fails before any scan; with no match it fails
\* with a not-found error; with more than one match, several entries of one
\* pid included, it kills nothing.
C34_KillOnlySingleMatch ==
    (call.fn = "run_kill" /\ call.done) =>
        LET ran == call.ran
            one == call.pid.some # call.port.some
        IN  /\ ~one => ran.scans = 0 /\ ran.kills = <<>> /\ ~ran.result.ok
            /\ Len(ran.kills) <= 1
            /\ ran.kills # <<>> =>
                  /\ one
                  /\ call.env.scan.ok
                  /\ Cardinality(Selected) = 1
                  /\ \A i \in Selected : ran.kills[1].pid = call.env.scan.val[i].pid
            /\ (one /\ call.env.scan.ok /\ Selected = {}) =>
                  /\ ~ran.result.ok
                  /\ ran.result.err \in {"No process found with PID",
                                         "No process found on port"}
            /\ (one /\ call.env.scan.ok /\ Cardinality(Selected) > 1) =>
                  ran.kills = <<>> /\ ~ran.result.ok
            /\ (one /\ call.env.scan.ok /\ Cardinality(Selected) = 1
                    /\ call.env.connect_ok) =>
                  Len(ran.kills) = 1

\* --pid 7 with the TCP and the UDP socket of pid 7 scanned: nothing killed
C34_Witness ==
    /\ call.fn = "run_kill"
    /\ call.done
    /\ call.pid = Some(7)
    /\ ~call.port.some
    /\ call.env.scan.ok
    /\ Cardinality(Selected) = 2
    /\ call.ran.kills = <<>>
    /\ call.ran.result = Exit1

\* C35: run_describe with a numeric target reports every scanned entry whose
\* port equals the target or whose pid equals the target, and fails with "No
\* process found" only when no entry matches by port or by pid.
C35_DescribePortOrPid ==
    (call.fn = "run_describe" /\ call.done /\ call.env.scan.ok
        /\ \A i \in 1..Len(call.target) : IsDigit(call.target[i])) =>
        LET n == DecValue(call.target)
            wanted == SelectSeq(call.env.scan.val, LAMBDA e : e.port = n \/ e.pid = n)
        IN  IF wanted = <<>>
            THEN call.ran.result = RErr("No process found matching")
            ELSE call.ran.result = ROk(wanted)

----------------------------------------------------------------------------
(* A scanned list shown by a new App: Scanner::scan's sort followed by the *)
(* sort of App::update_entries                                             *)

MaxScanned == 3     \* entries in one scanned list

\* sockets that share a port: TCP and UDP, and two of one protocol that
\* differ in memory
ScannedEntries ==
    { PortEntry(80, "Tcp", 7, <<"a">>, 0, 5, format_memory(5), TRUE, FALSE),
      PortEntry(80, "Tcp", 8, <<"b">>, 0, 9, format_memory(9), TRUE, FALSE),
      PortEntry(80, "Udp", 7, <<"a">>, 0, 5, format_memory(5), TRUE, FALSE),
      PortEntry(80, "Udp", 9, <<"h">>, 0, 9, format_memory(9), TRUE, FALSE),
      PortEntry(22, "Udp", 9, <<"h">>, 0, 9, format_memory(9), TRUE, FALSE) }

\* the entries in the order they were collected, and the list scan() makes of
\* them
InitShown ==
    /\ InitProgram
    /\ \E raw \in SeqsUpTo(ScannedEntries, MaxScanned) :
         call = [fn |-> "scan", raw |-> raw, list |-> SortScan(raw)]

\* app.update_entries(entries) on the new App, as the first tick does
ShowScanned ==
    /\ call.fn = "scan"
    /\ the_app' = update_entries(the_app, call.list)
    /\ call' = [call EXCEPT !.fn = "update_entries"]
    /\ UNCHANGED <<scannerVars, remoteVars, killVars>>
    /\ UNCHANGED <<scanner_mode, scan_interval, since_scan, pc, loop_step>>

NextShown == ShowScanned

SpecShown == InitShown /\ [][NextShown]_vars

\* C36: with the default sort (Port, Ascending) and an empty filter the list
\* shown after update_entries is the scanned list in the scanner's order:
\* ascending port, TCP before UDP within a port, higher memory first within
\* a port and protocol; the sort of update_entries moves no entry past
\* another of the same port.
C36_ShownKeepsScanOrder ==
    call.fn = "update_entries" =>
        /\ the_app.entries = call.list
        /\ \A i \in 1..(Len(the_app.entries) - 1) :
              LET a == the_app.entries[i]
                  b == the_app.entries[i + 1]
              IN  \/ a.port < b.port
                  \/ a.port = b.port /\ a.protocol = "Tcp" /\ b.protocol = "Udp"
                  \/ /\ a.port = b.port
                     /\ a.protocol = b.protocol
                     /\ a.memory_usage >= b.memory_usage

\* three sockets of port 80 collected UDP first and the smaller TCP one
\* before the larger: shown as larger TCP, smaller TCP, UDP
C36_Witness ==
    /\ call.fn = "update_entries"
    /\ Len(call.raw) = 3
    /\ call.raw[1].protocol = "Udp" /\ call.raw[1].port = 80
    /\ call.raw[2].protocol = "Tcp" /\ call.raw[2].memory_usage = 5
    /\ call.raw[3].protocol = "Tcp" /\ call.raw[3].memory_usage = 9
    /\ the_app.entries = <<call.raw[3], call.raw[2], call.raw[1]>>

\* C37: after any sequence of key events (navigation, Page Up/Down, Home,
\* End, the filter, the sort keys) and update_entries calls from App::new,
\* whenever the list shown is not empty the selection is below its length,
\* so selected_entry() is None only when the list is empty.
C37_SelectionInRange ==
    /\ the_app.entries # <<>> => the_app.selected_index < Len(the_app.entries)
    /\ selected_entry(the_app) = None => the_app.entries = <<>>

\* the selection stood beyond the rows the filter lets through when the
\* filtered list came: it is on the last row shown
C37_Witness ==
    /\ call.fn = "update_entries"
    /\ the_app.filter # <<>>
    /\ the_app.entries # <<>>
    /\ Len(the_app.entries) < Len(call.list)
    /\ call.before.selected_index > Len(the_app.entries)
    /\ selected_entry(the_app) = Some(the_app.entries[Len(the_app.entries)])

----------------------------------------------------------------------------
(* The filter being typed while scan ticks arrive                          *)

MaxPattern == 2     \* characters of the filter

FilterKeys ==
    {Key(c) : c \in {"Enter", "Esc", "Backspace"}}
        \cup {Char("/"), Char("1"), Char("a")}

\* handle_key_event on a key of the filter; Enter is pressed in the filter only
FilterKey ==
    /\ \E key \in FilterKeys :
         /\ key.code = "Enter" => the_app.filter_mode
         /\ (the_app.filter_mode /\ key.code = "Char") =>
                key.ch # "/" /\ Len(the_app.filter) < MaxPattern
         /\ the_app' = handle_key_event(the_app, scanner_mode, key, NoEnv).app
         /\ call' = AppCall("key", the_app, <<>>, key)
    /\ UNCHANGED <<scannerVars, remoteVars, killVars>>
    /\ UNCHANGED <<scanner_mode, scan_interval, since_scan, pc, loop_step>>

\* a scan tick of the main loop: app.update_entries(entries)
FilterTick ==
    /\ \E list \in {ShownList(1), ShownList(3)} :
         /\ the_app' = update_entries(the_app, list)
         /\ call' = AppCall("update_entries", the_app, list, NoKey)
    /\ UNCHANGED <<scannerVars, remoteVars, killVars>>
    /\ UNCHANGED <<scanner_mode, scan_interval, since_scan, pc, loop_step>>

NextFilter == FilterKey \/ FilterTick

SpecFilter == InitApp /\ [][NextFilter]_vars

\* C38: whenever update_entries filters (the filter is not empty) the matcher
\* comes from the filter text as it is now: a compiled regex that is present
\* was compiled from the current filter string, also while the filter is
\* being typed and a scan tick arrives; so the rows shown are the rows the
\* current filter text matches.
C38_MatcherIsCurrentFilter ==
    (call.fn = "update_entries" /\ call.before.filter # <<>>) =>
        /\ call.before.compiled_regex.some =>
               call.before.compiled_regex.val = call.before.filter
        /\ the_app.entries =
               SelectSeq(call.list,
                         LAMBDA e : \/ is_match(call.before.filter, e.process_name)
                                    \/ is_match(call.before.filter, Dec(e.port))
                                    \/ is_match(call.before.filter, Dec(e.pid)))

----------------------------------------------------------------------------
(* The remote host shown and the scanner in use, under SpecLoop            *)

\* C39: in every state of the loop reached from startup through connects,
\* failed connects and disconnects, app.remote_host is set exactly when the
\* scanner in use is a connected remote scanner; after handle_disconnect it
\* is None and the scanner is local; a startup whose connection failed shows
\* no remote host.
C39_RemoteHostIffConnectedRemote ==
    pc \in {"poll", "tick"} =>
        /\ the_app.remote_host.some <=>
               (scanner_mode.kind = "Remote" /\ is_connected(scanner_mode.session))
        /\ loop_step.outcome = "disconnected" =>
               ~the_app.remote_host.some /\ scanner_mode = ModeLocal

----------------------------------------------------------------------------
(* The netstat fallback of the local UDP scan, line by line                *)

\* the lines of NetstatLines, a UDP line whose local address has no port, and
\* a UDP line of two fields whose second has none either
FallbackLines ==
    NetstatLines
      \cup { NetstatLine(<<"u", "d", "p">>, <<"*">>, <<"0", ":", "*">>, <<"3", "/", "c">>),
             Line(<<<<"u", "d", "p">>, <<"x">>>>) }

FallbackOutputs ==
    { CmdOutput(FALSE, FALSE, <<>>), CmdOutput(TRUE, FALSE, <<>>) }
    \cup {CmdOutput(TRUE, TRUE, Unlines(<<NetstatHeader>> \o b)) :
            b \in SeqsUpTo(FallbackLines, MaxLines)}

InitFallback ==
    /\ InitProgram
    /\ \E first \in FallbackOutputs, second \in NetstatBsdOutputs :
         call = [fn |-> "scan_udp_with_netstat_raw", first |-> first,
                 second |-> second, done |-> FALSE, rows |-> None]

\* scan_udp_with_netstat_raw returns
FallbackReturn ==
    /\ call.fn = "scan_udp_with_netstat_raw"
    /\ ~call.done
    /\ call' = [call EXCEPT !.done = TRUE,
                            !.rows = scan_udp_with_netstat_raw(call.first, call.second)]
    /\ UNCHANGED nonCallVars

NextFallback == FallbackReturn

SpecFallback == InitFallback /\ [][NextFallback]_vars

RECURSIVE RowsLineByLine(_)
\* the rows of the lines, each line taken alone; a line that gives none, or
\* on which the function gives up, adds nothing
RowsLineByLine(lines) ==
    IF Len(lines) = 0 THEN <<>>
    ELSE (IF NetstatRows(<<lines[1]>>, <<>>).some
          THEN NetstatRows(<<lines[1]>>, <<>>).val ELSE <<>>)
            \o RowsLineByLine(Tail(lines))

\* C40: in the netstat fallback of the local UDP scan a malformed UDP line
\* (fewer than two fields, or no address with a port) is skipped on its own:
\* the entries of the other lines are still returned and the fallback is not
\* reported as failed.
C40_MalformedUdpLineSkippedAlone ==
    (call.fn = "scan_udp_with_netstat_raw" /\ call.done
        /\ call.first.ran /\ call.first.success) =>
        LET others == RowsLineByLine(Lines(call.first.stdout))
        IN  call.rows = IF others = <<>> THEN None ELSE Some(others)

============================================================================
